---- MODULE Spec2Model ----
(***************************************************************************)
(* The request pipeline of OpenApi<T> (src/src/openapi.ts) with the error  *)
(* taxonomy and default error handler of src/src/errors.ts.                *)
(*                                                                         *)
(* One behaviour is the life of one facade: definitions and interceptors   *)
(* are registered, the definitions initialize asynchronously, and one      *)
(* handleAsync call runs through routeAsync, the handler built by          *)
(* createHandler, authorizeRequest, the error handler and formatResponse.  *)
(* The external router (openapi-backend) and every user callback           *)
(* (interceptor, authorizer, operation handler, custom error handler) are  *)
(* the environment: what they answer is drawn from the bounded sets below. *)
(***************************************************************************)
EXTENDS Integers, Sequences, FiniteSets, TLC

\* ------------------------------------------------------------ bounds

\* Definitions one facade registers, interceptors it installs.
MaxApis == 2
MaxInterceptors == 2
\* Security alternatives of an operation and schemes of one alternative,
\* for the specification of authorizeRequest on its own.
MaxAlternatives == 2
MaxSchemes == 2
\* Elements of an array-valued raw parameter, for the specification of
\* parseRequest on its own.
MaxItems == 2

\* ------------------------------------------------------------ values

\* A parameter or header value: a string, a number, a boolean, or an array
\* of those.
StringValue(s) == [t |-> "string", s |-> s, n |-> 0, b |-> FALSE, items |-> <<>>]

NumberValue(n) == [t |-> "number", s |-> "", n |-> n, b |-> FALSE, items |-> <<>>]

BooleanValue(b) == [t |-> "boolean", s |-> "", n |-> 0, b |-> b, items |-> <<>>]

ArrayValue(items) == [t |-> "array", s |-> "", n |-> 0, b |-> FALSE, items |-> items]

\* undefined, which the type of a header value admits.
UndefinedValue == [t |-> "undefined", s |-> "", n |-> 0, b |-> FALSE, items |-> <<>>]

\* An optional number (statusCode?: number) is the empty set or a singleton.
Undefined == {}

Some(v) == {v}

\* a ?? b
Coalesce(a, b) == IF a = Undefined THEN b ELSE a

\* Response.body is `any`: undefined, null, a value, or the {message, data}
\* object the default error handler writes.
BodyUndefined == [t |-> "undefined", v |-> "", hasData |-> FALSE, data |-> <<>>]

BodyNull == [t |-> "null", v |-> "", hasData |-> FALSE, data |-> <<>>]

BodyValue(s) == [t |-> "value", v |-> s, hasData |-> FALSE, data |-> <<>>]

\* a ?? b on bodies: null and undefined both give b
CoalesceBody(a, b) == IF a.t \in {"undefined", "null"} THEN b ELSE a

\* const res: Response = {headers: {}}
NewResponse == [statusCode |-> Undefined, headers |-> <<>>, body |-> BodyUndefined]

\* res.headers[name] = value, for each name of written.
SetHeaders(headers, written) ==
  [k \in DOMAIN headers \cup DOMAIN written |->
     IF k \in DOMAIN written THEN written[k] ELSE headers[k]]

\* ------------------------------------------------------------ errors

\* A thrown value: its class, its own statusCode and data fields (HttpError
\* only; data is optional), its message, its errors field (the collected
\* scheme errors of an UnauthorizedError, the validation errors of a
\* BadRequestError), and (two errors of one class being different objects)
\* the definition whose probe constructed it, 0 for an error constructed
\* anywhere else.
MkError(kind, status, msg, errs) ==
  [kind |-> kind, statusCode |-> status, message |-> msg, errors |-> errs,
   data |-> Undefined, origin |-> 0]

\* new Errors.X(apiContext.request, ...) in a default handler of definition api
From(e, api) == [e EXCEPT !.origin = api]

PlainError(msg) == MkError("Error", Undefined, msg, <<>>)

\* One validation error of the router (an ajv ErrorObject): where and what.
Violation(dataPath, message) == [dataPath |-> dataPath, message |-> message]

\* The error lists the router hands to the validationFail handler: one
\* violation, and two of which the first has an empty dataPath.
ValidationErrorLists ==
  {<<Violation(".query.limit", "should be number")>>,
   <<Violation("", "should have required property"), Violation(".query.limit", "should be number")>>}

BadRequestError(errs) == MkError("BadRequestError", Undefined, "Invalid request", errs)

NotFoundError == MkError("NotFoundError", Undefined, "Unknown operation", <<>>)

NotImplementedError == MkError("NotImplementedError", Undefined, "not implemented", <<>>)

UnauthorizedError(errs) == MkError("UnauthorizedError", Undefined, "not authorized", errs)

HttpError(msg, status) == MkError("HttpError", Some(status), msg, <<>>)

\* new HttpError(message, statusCode, data)
HttpErrorWith(msg, status, data) == [HttpError(msg, status) EXCEPT !.data = Some(data)]

NoError == MkError("none", Undefined, "", <<>>)

\* What user code throws: a plain Error, an HttpError carrying a status, one
\* carrying a status and data, and the exported NotFoundError class.
UserErrors ==
  {PlainError("boom"), HttpError("Forbidden", 403),
   HttpErrorWith("Conflict", 409, <<"detail">>), NotFoundError}

\* What an authorizer throws.
AuthorizerErrors == {PlainError("boom"), HttpError("Forbidden", 403)}

\* The same with a second status, carried by an error that also has data.
SchemeErrors == AuthorizerErrors \cup {HttpErrorWith("Locked", 423, <<"retry">>)}

\* Faulty variant: the last collected error that carries a statusCode decides.
RECURSIVE LastStatus(_)
LastStatus(errs) ==
  IF errs = <<>> THEN Undefined
  ELSE Coalesce(LastStatus(Tail(errs)), Head(errs).statusCode)

\* toHttpError, the UnauthorizedError branch: the first collected error
\* that carries a statusCode decides (statusCode = statusCode ?? subStatusCode).
RECURSIVE FirstStatus(_)
FirstStatus(errs) ==
  IF errs = <<>> THEN Undefined
  ELSE Coalesce(Head(errs).statusCode, FirstStatus(Tail(errs)))

\* Faulty variant: the message, the status and the data of the error are passed on.
InternalHttpErrorPassingOn(err) ==
  [statusCode |-> Coalesce(err.statusCode, Some(500)), message |-> err.message,
   hasData |-> err.data # Undefined,
   data |-> IF err.data = Undefined THEN <<>> ELSE CHOOSE d \in err.data : TRUE]

\* toHttpError, any other error: logger.error(`Unhandled internal error: `,
\* err); return new HttpError(`Internal error`, 500)
InternalHttpError(err) ==
  [statusCode |-> Some(500), message |-> "Internal error", hasData |-> FALSE, data |-> <<>>]

\* toHttpError: the HttpError each thrown error is converted to, as
\* [statusCode, message, hasData, data].
toHttpError(err) ==
  CASE err.kind = "BadRequestError" ->
         [statusCode |-> Some(400), message |-> "Invalid request", hasData |-> TRUE,
          data |-> [i \in 1..Len(err.errors) |->
                      <<IF err.errors[i].dataPath = "" THEN "Request" ELSE err.errors[i].dataPath,
                        err.errors[i].message>>]]
    [] err.kind = "NotFoundError" ->
         [statusCode |-> Some(404), message |-> "Resource not found", hasData |-> FALSE, data |-> <<>>]
    [] err.kind = "NotImplementedError" ->
         [statusCode |-> Some(501), message |-> "Not implemented", hasData |-> FALSE, data |-> <<>>]
    [] err.kind = "UnauthorizedError" ->
         [statusCode |-> Coalesce(FirstStatus(err.errors), Some(401)),
          message |-> "Not authorized", hasData |-> TRUE,
          data |-> [i \in 1..Len(err.errors) |->
                      [message |-> err.errors[i].message, data |-> err.errors[i].data]]]
    [] err.kind = "HttpError" ->
         [statusCode |-> err.statusCode, message |-> err.message, hasData |-> err.data # Undefined,
          data |-> IF err.data = Undefined THEN <<>> ELSE CHOOSE d \in err.data : TRUE]
    [] OTHER -> InternalHttpError(err)

\* Faulty variant: a status already on the pending response is kept.
defaultErrorHandlerKeepingStatus(res, err) ==
  LET h == toHttpError(err)
  IN  [res EXCEPT !.statusCode = Coalesce(@, Coalesce(h.statusCode, Some(500))),
                  !.body = [t |-> "error", v |-> h.message, hasData |-> h.hasData, data |-> h.data]]

\* Faulty variant: the response is replaced by one that holds the status and
\* the body alone.
defaultErrorHandlerReplacingResponse(res, err) ==
  LET h == toHttpError(err)
  IN  [statusCode |-> Coalesce(h.statusCode, Some(500)), headers |-> <<>>,
       body |-> [t |-> "error", v |-> h.message, hasData |-> h.hasData, data |-> h.data]]

\* defaultErrorHandler: Object.assign(res, {statusCode, body: {message, data}})
defaultErrorHandler(res, err) ==
  LET h == toHttpError(err)
  IN  [res EXCEPT !.statusCode = Coalesce(h.statusCode, Some(500)),
                  !.body = [t |-> "error", v |-> h.message, hasData |-> h.hasData, data |-> h.data]]

\* ------------------------------------------------------------ status codes

\* Faulty variant: max inclusive.
inRangeInclusive(min, max, value) == value >= min /\ value <= max

\* inRange(min, max): min inclusive, max exclusive
inRange(min, max, value) == value >= min /\ value < max

\* The keys an operation may declare responses under.
ResponseKeys == {"199", "200", "201", "302", "399", "400", "404", "default", "2XX"}

\* Number(key): the number a decimal numeral denotes, and NaN (here the empty
\* set, a number n being {n}) for a key that is no numeral.
Number(key) ==
  CASE key = "199" -> Some(199)
    [] key = "200" -> Some(200)
    [] key = "201" -> Some(201)
    [] key = "302" -> Some(302)
    [] key = "399" -> Some(399)
    [] key = "400" -> Some(400)
    [] key = "404" -> Some(404)
    [] OTHER -> Undefined

\* Object.keys(responses).map(Number), without the NaN entries (which no
\* comparison holds for).
ResponseCodes(responses) == UNION {Number(key) : key \in responses}

\* getDefaultStatusCode: the declared response codes in [200, 400)
DefaultCodes(responses) == {c \in ResponseCodes(responses) : inRange(200, 400, c)}

\* getDefaultStatusCode throws unless exactly one such code exists
DefaultStatusThrows(responses) == Cardinality(DefaultCodes(responses)) # 1

getDefaultStatusCode(responses) == CHOOSE c \in DefaultCodes(responses) : TRUE

\* String(value) for the values a header holds: the decimal form of a number,
\* "true" or "false" for a boolean, "undefined" for undefined, a string as
\* it is.
String(v) ==
  CASE v.t = "number" -> StringValue(ToString(v.n))
    [] v.t = "boolean" -> StringValue(IF v.b THEN "true" ELSE "false")
    [] v.t = "undefined" -> StringValue("undefined")
    [] OTHER -> v

\* oneOrMany(String): an array is mapped element by element, any other
\* value is converted itself.
oneOrManyString(v) ==
  IF v.t = "array" THEN ArrayValue([i \in 1..Len(v.items) |-> String(v.items[i])])
  ELSE String(v)

\* mapObject(headers, oneOrMany(String)): the same names, each value converted.
mapObject(headers) == [k \in DOMAIN headers |-> oneOrManyString(headers[k])]

\* Faulty variant: the headers are returned as the pending response holds them.
formatResponseHeadersUnmapped(res) ==
  [statusCode |-> Coalesce(res.statusCode, Some(500)), headers |-> res.headers, body |-> res.body]

\* formatResponse: statusCode defaults to 500, headers are mapped to strings
formatResponse(res) ==
  [statusCode |-> Coalesce(res.statusCode, Some(500)), headers |-> mapObject(res.headers),
   body |-> res.body]

\* ------------------------------------------------------------ authorizeRequest

SchemeNames == {"A", "B"}

\* Names that every object inherits from Object.prototype as functions which
\* return when they are called with the arguments of an authorizer (toString
\* stands for them; constructor, valueOf, hasOwnProperty, isPrototypeOf,
\* propertyIsEnumerable and toLocaleString are the others).
InheritedNames == {"toString"}

\* Sequences over S of length at most n.
RECURSIVE SeqsUpTo(_, _)
SeqsUpTo(S, n) ==
  IF n = 0 THEN {<<>>}
  ELSE LET shorter == SeqsUpTo(S, n - 1)
       IN  shorter \cup {Append(q, x) : q \in {r \in shorter : Len(r) = n - 1}, x \in S}

\* One security requirement object: its scheme names in key order (the keys
\* of an object are distinct).
AlternativesOver(names, n) ==
  {q \in SeqsUpTo(names, n) : \A i, j \in 1..Len(q) : i # j => q[i] # q[j]}

\* The security lists over the given scheme names.
SecurityListsOver(names) == SeqsUpTo(AlternativesOver(names, MaxSchemes), MaxAlternatives)

\* The security lists authorizeRequest is checked on.
SecurityLists == SecurityListsOver(SchemeNames)

\* The security lists of the operations the router matches in the pipeline.
RouteSecurityLists == {<<>>, << <<"A">> >>, << <<"A">>, <<"B">> >>}

\* The value an authorizer returns: a session naming the scheme and the call.
AuthResult(name, n) == [by |-> name, call |-> n]

\* results[name] = value
SetResult(results, name, value) ==
  {p \in results : p[1] # name} \cup {<<name, value>>}

\* Faulty variant: results is shared by all requirements instead of fresh for each.
BeginAlternativeKeepingResults(a, k) ==
  [a EXCEPT !.alt = k, !.sch = 1, !.authorized = TRUE]

\* Faulty variant: errors is emptied at the head of each requirement.
BeginAlternativeFreshErrors(a, k) ==
  [a EXCEPT !.alt = k, !.sch = 1, !.results = {}, !.authorized = TRUE, !.errors = <<>>]

\* The locals of authorizeRequest at the head of the loop body of one
\* requirement: const results = {}; let authorized = true.
BeginAlternative(a, k) ==
  [a EXCEPT !.alt = k, !.sch = 1, !.results = {}, !.authorized = TRUE]

\* Faulty variant: a requirement counts as authorized whatever its authorizers threw.
RECURSIVE AdvanceIgnoringFailures(_, _)
AdvanceIgnoringFailures(security, a) ==
  IF a.alt > Len(security) THEN [a EXCEPT !.status = "unauthorized"]
  ELSE IF a.sch > Len(security[a.alt]) THEN [a EXCEPT !.status = "authorized"]
       ELSE [a EXCEPT !.status = "calling"]

\* Faulty variant: the first authorizer that throws ends its requirement.
RECURSIVE AdvanceBreakingOnFailure(_, _)
AdvanceBreakingOnFailure(security, a) ==
  IF a.alt > Len(security) THEN [a EXCEPT !.status = "unauthorized"]
  ELSE IF ~a.authorized
       THEN AdvanceBreakingOnFailure(security, BeginAlternative(a, a.alt + 1))
       ELSE IF a.sch > Len(security[a.alt]) THEN [a EXCEPT !.status = "authorized"]
            ELSE [a EXCEPT !.status = "calling"]

\* authorizers[name](...) for a name that authorizers does not hold and
\* that no object inherits: calling undefined throws a TypeError inside the
\* try, which the catch collects like the error of an authorizer.
MissingAuthorizer(a) ==
  [a EXCEPT !.sch = @ + 1, !.authorized = FALSE,
            !.errors = Append(@, MkError("TypeError", Undefined,
                                         "authorizers[name] is not a function", <<>>))]

\* What the inherited function returns, kept as the result of the scheme.
InheritedResult(name) == [by |-> "Object.prototype", call |-> 0]

\* authorizers[name](...) for a name that authorizers does not hold itself
\* and inherits from Object.prototype: authorizers is a plain object, the
\* lookup finds the inherited function, the call returns, and
\* results[name] is what it returned, once the await has settled. No
\* authorizer of the definition runs.
InheritedAuthorizer(name, a) ==
  [a EXCEPT !.sch = @ + 1, !.results = SetResult(@, name, InheritedResult(name))]

\* Runs the loops of authorizeRequest up to the next await (the call of an
\* authorizer of the definition, or of a function authorizers inherits), the
\* return of a fully authorized alternative, or the final throw. Calling
\* undefined throws before anything is awaited.
RECURSIVE Advance(_, _)
Advance(security, a) ==
  IF a.alt > Len(security) THEN [a EXCEPT !.status = "unauthorized"]
  ELSE IF a.sch > Len(security[a.alt])
       THEN IF a.authorized THEN [a EXCEPT !.status = "authorized"]
            ELSE Advance(security, BeginAlternative(a, a.alt + 1))
       ELSE IF security[a.alt][a.sch] \in a.registered \cup InheritedNames
            THEN [a EXCEPT !.status = "calling"]
            ELSE Advance(security, MissingAuthorizer(a))

NoAuth ==
  [alt |-> 0, sch |-> 0, results |-> {}, errors |-> <<>>, authorized |-> TRUE,
   status |-> "idle", calls |-> <<>>, registered |-> SchemeNames]

\* Entry of authorizeRequest in the handler of a definition registered with
\* the given authorizers.
BeginAuthorizeWith(authorizers, security) ==
  IF Len(security) = 0 THEN [NoAuth EXCEPT !.status = "authorized", !.registered = authorizers]
  ELSE Advance(security, BeginAlternative([NoAuth EXCEPT !.registered = authorizers], 1))

\* Entry of authorizeRequest: an empty list returns {} at once.
BeginAuthorize(security) ==
  IF Len(security) = 0 THEN [NoAuth EXCEPT !.status = "authorized"]
  ELSE Advance(security, BeginAlternative(NoAuth, 1))

\* One authorizer call settled: try { results[name] = await ... } catch
\* { authorized = false; errors.push(error) }, then on with the loops.
AfterAuthorizer(security, a, ok, error) ==
  LET name == security[a.alt][a.sch]
      n == Len(a.calls) + 1
      called == [a EXCEPT !.calls = Append(@, [alt |-> a.alt, name |-> name, ok |-> ok, error |-> error]),
                          !.sch = @ + 1]
  IN  Advance(security,
        IF ok THEN [called EXCEPT !.results = SetResult(@, name, AuthResult(name, n))]
        ELSE [called EXCEPT !.authorized = FALSE, !.errors = Append(@, error)])

\* ------------------------------------------------------------ state

VARIABLES
  errorHandlerAsync,        \* "default" (Errors.defaultErrorHandler) or "custom"
  invalidResponseStrategy,  \* "warn" or "throw"
  responseTrimming,         \* "none", "failing" or "all"
  interceptors,             \* this.interceptors: the ids of the installed interceptors
  apiPromises,              \* this.apiPromises: each "pending", "fulfilled" or "rejected"
  settled,                  \* the order in which the initializations settled
  pc,                       \* where the handleAsync call stands
  req,                      \* the raw request of the call
  res,                      \* the pending Response of the call
  thrown,                   \* the error caught by handleAsync
  route,                    \* locals of routeAsync: apis, interceptor index, api index, err
  operation,                \* the operation the router matched in the current probe
  auth,                     \* locals of authorizeRequest
  security,                 \* operationParams.security.results
  probes,                   \* history: the definitions probed and how each probe ended
  log,                      \* history: the user callbacks invoked, in order
  hist,                     \* history: what the handler and the error handler found and left
  raw,                      \* the RawResponse returned
  parsed,                   \* parseRequest: the apiContext it reads (and the request as it
                            \* was received), the Request it builds, and the ajv instance
                            \* of utils.ts with the validators it has compiled
  params,                   \* the RequestParams of the call: {api: this, data}
  seen,                     \* history: the params.data each callback was handed, in order
  own,                      \* history: the pending response as the steps of this call left it
  waiting,                  \* the other handleAsync calls of the facade, each at an await
  script                    \* what the callbacks of the facade do whenever they are invoked

facade == <<errorHandlerAsync, invalidResponseStrategy, responseTrimming, interceptors,
           apiPromises, settled>>

call ==
  <<pc, req, res, thrown, route, operation, auth, security, probes, log, hist, raw, parsed,
    params, seen, own>>

others == <<waiting, script>>

vars == <<errorHandlerAsync, invalidResponseStrategy, responseTrimming, interceptors,
          apiPromises, settled,
          pc, req, res, thrown, route, operation, auth, security, probes, log, hist, raw, parsed,
          params, seen, own, waiting, script>>

\* The raw requests: method, path and headers as isRawRequest and the id
\* template of handleAsync read them.
RawRequests ==
  [method : {"string", "undefined", "number"},
   path : {"string", "undefined"},
   headers : {"object", "undefined"}]

\* isRawRequest
isRawRequest(r) == r.method = "string" /\ r.path = "string" /\ r.headers = "object"

\* `${req.method?.toUpperCase()} ${req.path}` throws a TypeError when method
\* is neither nullish nor a string.
RequestIdThrows(r) == r.method \notin {"string", "undefined"}

\* The apiContext of a matched operation as authorizeRequest reads it: the
\* security list the operation declares and the one the definition declares,
\* each of them optional (the empty set, or the set holding the list).
ApiContext(operationSecurity, definitionSecurity, responses) ==
  [operation |-> [security |-> operationSecurity, responses |-> responses],
   definition |-> [security |-> definitionSecurity]]

\* Faulty variant: the list of the definition is put before the operation's own.
securityRequirementsMerged(apiContext) ==
  (IF apiContext.definition.security = Undefined THEN <<>>
   ELSE CHOOSE l \in apiContext.definition.security : TRUE)
    \o (IF apiContext.operation.security = Undefined THEN <<>>
        ELSE CHOOSE l \in apiContext.operation.security : TRUE)

\* const securityRequirements = operation.security ?? definition.security ?? []
securityRequirements(apiContext) ==
  LET chosen == Coalesce(apiContext.operation.security, apiContext.definition.security)
  IN  IF chosen = Undefined THEN <<>> ELSE CHOOSE l \in chosen : TRUE

\* The matched operation as the call keeps it: the security requirements
\* that are evaluated, the declared response codes, and the two lists as
\* they were declared.
MatchedOperation(apiContext) ==
  [security |-> securityRequirements(apiContext),
   responses |-> apiContext.operation.responses,
   declared |-> apiContext.operation.security,
   definition |-> apiContext.definition.security]

\* The apiContext of an operation that declares the list op.security itself.
Declaring(op) == ApiContext(Some(op.security), Undefined, op.responses)

NoOperation == MatchedOperation(ApiContext(Undefined, Undefined, {}))

\* The operations the external router may match.
ResponseSets == {{}, {"201"}, {"200", "201"}, {"302"}, {"201", "302"}, {"201", "404"}}

\* Security and response codes are varied one at a time.
Operations ==
  [security : RouteSecurityLists, responses : {{"201"}}]
    \cup [security : {<<>>}, responses : ResponseSets]

\* The locals of routeAsync before its first await; all is how many promises
\* of this.apiPromises were handed to Promise.all.
NoRoute == [all |-> 0, apis |-> <<>>, ic |-> 0, api |-> 0, err |-> NoError]

NoHist ==
  [handlers |-> <<>>, returned |-> FALSE, statusPre |-> Undefined, bodyPre |-> BodyUndefined,
   ret |-> BodyUndefined, resolved |-> Undefined, bodyErrors |-> FALSE, headerErrors |-> FALSE,
   validated |-> FALSE, warned |-> FALSE, reported |-> <<>>, eh |-> "notRun",
   ehRes |-> NewResponse, coercion |-> Undefined, caught |-> NewResponse, installed |-> 0,
   registered |-> 0, data |-> Undefined]

NoRaw == [statusCode |-> Undefined, headers |-> <<>>, body |-> BodyUndefined]

Event(ev, n, name) == [ev |-> ev, n |-> n, name |-> name]

\* parseRequest is followed on its own, below; in the pipeline its outcome is
\* an input of the probe.
NoParse == [status |-> "none"]

\* const params: RequestParams<T> = {api: this, data}; handleAsync(req) without
\* custom data leaves data undefined.
RequestParams(data) == [data |-> data]

NoParams == RequestParams(Undefined)

\* The custom data a caller passes to handleAsync.
CustomData == {Some("session"), Some("other")}

\* One callback invocation: which callback, the data of the params object
\* it was handed, and what it assigned to that object.
Seen(who, p) == [who |-> who, data |-> p.data, assigned |-> <<>>]

\* Object.assign(params, ...sources)
ObjectAssign(target, source) ==
  [k \in DOMAIN target \cup DOMAIN source |->
     IF k \in DOMAIN source THEN source[k] ELSE target[k]]

\* The callbacks of a facade whose answers are not fixed.
NoScript == [fixed |-> FALSE]

\* new OpenApi({errorHandlerAsync, invalidResponseStrategy}): no definitions,
\* no interceptors, no call yet; responseTrimming is left at its default.
Init ==
  /\ errorHandlerAsync \in {"default", "custom"}
  /\ invalidResponseStrategy \in {"warn", "throw"}
  /\ responseTrimming = "failing"
  /\ interceptors = <<>>
  /\ apiPromises = <<>>
  /\ settled = <<>>
  /\ pc = "idle"
  /\ req = [headers |-> "object", method |-> "string", path |-> "string"]
  /\ res = NewResponse
  /\ thrown = NoError
  /\ route = NoRoute
  /\ operation = NoOperation
  /\ auth = NoAuth
  /\ security = {}
  /\ probes = <<>>
  /\ log = <<>>
  /\ hist = NoHist
  /\ raw = NoRaw
  /\ parsed = NoParse
  /\ params = NoParams
  /\ seen = <<>>
  /\ own = NewResponse
  /\ waiting = <<>>
  /\ script = NoScript

\* ------------------------------------------------------------ registration

\* register(): this.apiPromises.push(this.createApiAsync(...)), at any time,
\* also while a handleAsync call is running.
Register ==
  /\ Len(apiPromises) < MaxApis
  /\ apiPromises' = Append(apiPromises, "pending")
  /\ UNCHANGED <<errorHandlerAsync, invalidResponseStrategy, responseTrimming, interceptors, settled>>
  /\ UNCHANGED call
  /\ UNCHANGED others

\* createApiAsync settles: the definition initialized, or init() threw.
CreateApiAsync(i, ok) ==
  /\ i \in 1..Len(apiPromises)
  /\ apiPromises[i] = "pending"
  /\ apiPromises' = [apiPromises EXCEPT ![i] = IF ok THEN "fulfilled" ELSE "rejected"]
  /\ settled' = Append(settled, i)
  /\ UNCHANGED <<errorHandlerAsync, invalidResponseStrategy, responseTrimming, interceptors>>
  /\ UNCHANGED call
  /\ UNCHANGED others

\* intercept(...interceptors): this.interceptors.push(...interceptors) with
\* n functions (none when it is called without), at any time, also while a
\* handleAsync call is running.
Intercept(n) ==
  /\ Len(interceptors) + n <= MaxInterceptors
  /\ interceptors' = interceptors \o [i \in 1..n |-> Len(interceptors) + i]
  /\ UNCHANGED <<errorHandlerAsync, invalidResponseStrategy, responseTrimming, apiPromises, settled>>
  /\ UNCHANGED call
  /\ UNCHANGED others

\* ------------------------------------------------------------ handleAsync

\* res.statusCode = res.statusCode ?? 500; return this.formatResponse(res)
Finalize(r) == formatResponse([r EXCEPT !.statusCode = Coalesce(@, Some(500))])

\* e instanceof Errors.NotFoundError
IsNotFound(e) == e.kind = "NotFoundError"

\* Promise.all(this.apiPromises): the definitions in the order of the array.
ResolvedApis(promises, order) == [i \in 1..Len(promises) |-> i]

\* An error leaves routeAsync and is caught by handleAsync.
Caught(e) ==
  /\ pc' = "catch"
  /\ thrown' = e

\* Faulty variant: only the first NotFoundError is remembered (err = err ?? e).
RememberFirst(err, e) == IF err.kind = "none" THEN e ELSE err

\* err = e
Remember(err, e) == e

\* The catch of the probing loop of routeAsync, for the probe that is last in
\* ps: a NotFoundError is remembered and the next definition is tried (the
\* remembered error is thrown after the last one), any other error is rethrown.
ProbeFailed(ps, e) ==
  /\ probes' = [ps EXCEPT ![Len(ps)].end = IF IsNotFound(e) THEN "notFound" ELSE "threw"]
  /\ IF IsNotFound(e)
     THEN /\ route' = [route EXCEPT !.err = Remember(@, e), !.api = @ + 1]
          /\ IF route.api + 1 > Len(route.apis)
             THEN Caught(Remember(route.err, e))
             ELSE pc' = "probe" /\ thrown' = thrown
     ELSE /\ route' = route
          /\ Caught(e)

\* handleAsync up to the first await of routeAsync: the id template, the
\* fresh pending response, the isRawRequest check, and Promise.all on the
\* promises this.apiPromises holds at that moment.
HandleAsync(r, data) ==
  /\ pc = "idle"
  /\ req' = r
  /\ params' = RequestParams(data)
  /\ res' = NewResponse
  /\ own' = res'
  /\ IF RequestIdThrows(r)
     THEN pc' = "rejected" /\ UNCHANGED <<thrown, route>>
     ELSE IF ~isRawRequest(r)
          THEN Caught(PlainError("Invalid HTTP request")) /\ route' = route
          ELSE /\ pc' = "getApis"
               /\ route' = [route EXCEPT !.all = Len(apiPromises)]
               /\ thrown' = thrown
  /\ hist' = [hist EXCEPT !.installed = Len(interceptors), !.registered = Len(apiPromises),
                           !.data = data]
  /\ UNCHANGED facade
  /\ UNCHANGED <<parsed, waiting, script>>
  /\ UNCHANGED <<operation, auth, security, probes, log, raw, seen>>

\* Faulty variant: the call goes on as soon as one initialization has succeeded.
SomeFulfilled(promises) == \E i \in 1..Len(promises) : promises[i] = "fulfilled"

\* Promise.all resolves once every promise of the array is fulfilled.
AllFulfilled(promises) == \A i \in 1..Len(promises) : promises[i] = "fulfilled"

\* Faulty variant: an empty facade answers like an unknown route.
NoApisAsNotFound == NotFoundError

\* throw new Error(`No APIs are registered`)
NoApisRegistered == PlainError("No APIs are registered")

\* Faulty variant: an initialization that failed is forgotten once a call
\* has seen it fail.
AwaitedDroppingRejected(promises) == SelectSeq(promises, LAMBDA q : q # "rejected")

\* Promise.all(this.apiPromises) reads the array and leaves it as it is: a
\* promise that was pushed by register stays, rejected or not.
Awaited(promises) == promises

\* The promises Promise.all was handed: the first n of the array, whatever
\* register pushed since.
Handed(promises, n) == SubSeq(promises, 1, IF n < Len(promises) THEN n ELSE Len(promises))

\* await this.getApisAsync() settles: it rejects as soon as one of the
\* initializations it was handed has failed and resolves once all of them
\* have succeeded; then the check for an empty list, and on to the first
\* interceptor this.interceptors holds by now, or to the first probe.
GetApisAsync ==
  /\ pc = "getApis"
  /\ LET all == Handed(apiPromises, route.all)
     IN  \/ /\ \E i \in 1..Len(all) : all[i] = "rejected"
            /\ Caught(PlainError("init failed"))
            /\ route' = route
         \/ /\ AllFulfilled(all)
            /\ LET apis == ResolvedApis(all, settled)
               IN  IF Len(apis) = 0
                   THEN Caught(NoApisRegistered) /\ route' = route
                   ELSE /\ thrown' = thrown
                        /\ route' = [route EXCEPT !.apis = apis, !.ic = 1, !.api = 1]
                        /\ pc' = IF Len(interceptors) = 0 THEN "probe" ELSE "intercept"
  /\ apiPromises' = Awaited(apiPromises)
  /\ UNCHANGED <<errorHandlerAsync, invalidResponseStrategy, responseTrimming, interceptors, settled>>
  /\ UNCHANGED <<parsed, waiting, script>>
  /\ UNCHANGED <<req, res, operation, auth, security, probes, log, hist, raw, params, seen, own>>

\* What an interceptor does: return, set a status on the pending response
\* and return, or throw; assign is what it copies into the params object it
\* is handed (nothing here).
InterceptorOutcomes ==
  {[do |-> "return", err |-> NoError, headers |-> <<>>, assign |-> <<>>],
   [do |-> "setStatus", err |-> NoError, headers |-> <<>>, assign |-> <<>>]}
    \cup {[do |-> "throw", err |-> e, headers |-> <<>>, assign |-> <<>>] : e \in UserErrors}

\* The pending response as the interceptor leaves it, thrown or not.
InterceptorWrites(r, o) ==
  [r EXCEPT !.statusCode = IF o.do = "setStatus" THEN Some(202) ELSE @,
            !.headers = SetHeaders(@, o.headers)]

\* Faulty variant: the interceptors are taken from the end of the list.
NextInterceptorReversed(list, ic) == list[Len(list) + 1 - ic]

\* for (const interceptor of this.interceptors): the ic-th one
NextInterceptor(list, ic) == list[ic]

\* for (const interceptor of this.interceptors) reads the list and leaves it
\* as it is.
Iterated(list, ic) == list

\* await interceptor(req, res, params), for the next interceptor in order:
\* params is the object handleAsync made for the call, and what the
\* interceptor assigns to it (attachParams: Object.assign(params, ...sources))
\* is there for every callback handed params after it.
InvokeInterceptor(o) ==
  /\ pc = "intercept"
  /\ log' = Append(log, Event("interceptor", NextInterceptor(interceptors, route.ic),
                              IF o.do = "throw" THEN "threw" ELSE ""))
  /\ res' = InterceptorWrites(res, o)
  /\ IF o.do = "throw"
     THEN /\ Caught(o.err)
          /\ route' = route
     ELSE /\ route' = [route EXCEPT !.ic = @ + 1]
          /\ pc' = IF route.ic = Len(interceptors) THEN "probe" ELSE "intercept"
          /\ thrown' = thrown
  /\ interceptors' = Iterated(interceptors, route.ic)
  /\ UNCHANGED <<errorHandlerAsync, invalidResponseStrategy, responseTrimming, apiPromises, settled>>
  /\ UNCHANGED <<parsed, waiting, script>>
  /\ params' = ObjectAssign(params, o.assign)
  /\ seen' = Append(seen, [Seen("interceptor", params) EXCEPT !.assigned = o.assign])
  /\ own' = res'
  /\ UNCHANGED <<req, operation, auth, security, probes, hist, raw>>

NewProbe(api, match) == [api |-> api, match |-> match, end |-> "pending"]

\* api.handleRequest(req, {res, params}) answers without reaching a handler:
\* the notFound, validationFail or notImplemented handler throws (errors is
\* apiContext.validation.errors, read by validationFail only).
HandleRequestFails(match, errors) ==
  /\ pc = "probe"
  /\ ProbeFailed(Append(probes, NewProbe(route.apis[route.api], match)),
                 From(CASE match = "notFound" -> NotFoundError
                        [] match = "validationFail" -> BadRequestError(errors)
                        [] OTHER -> NotImplementedError,
                      route.apis[route.api]))
  /\ auth' = NoAuth
  /\ security' = {}
  /\ UNCHANGED facade
  /\ UNCHANGED <<parsed, waiting, script>>
  /\ UNCHANGED <<req, res, operation, log, hist, raw, params, seen, own>>

\* fail(message, strategy): throws under 'throw', and logs a warning otherwise.
fail(strategy) == strategy = "throw"

\* Faulty variant: coercion errors are handled with the strategy configured
\* for invalid responses.
parseRequestThrowsAsConfigured(coercionErrors, configured) ==
  coercionErrors /\ fail(configured)

\* parseRequest: this.handleValidationErrors(errors, `Request doesn't match
\* schema`, 'throw'), whatever strategy the facade was configured with.
parseRequestThrows(coercionErrors, configured) ==
  coercionErrors /\ fail("throw")

\* api.handleRequest matches an operation and calls the handler built by
\* createHandler: parseRequest (coercion errors throw), then authorizeRequest
\* up to its first authorizer call.
HandleRequestMatches(apiContext, coercionErrors) ==
  /\ pc = "probe"
  /\ operation' = MatchedOperation(apiContext)
  /\ hist' = [hist EXCEPT
                !.coercion = IF coercionErrors THEN Some(Len(log)) ELSE Undefined,
                !.warned = @ \/ (coercionErrors
                                    /\ ~parseRequestThrows(coercionErrors,
                                                           invalidResponseStrategy))]
  /\ LET ps == Append(probes, NewProbe(route.apis[route.api], "matched"))
         a == BeginAuthorize(securityRequirements(apiContext))
     IN  IF parseRequestThrows(coercionErrors, invalidResponseStrategy)
         THEN /\ ProbeFailed(ps, PlainError("Request doesn't match schema"))
              /\ auth' = NoAuth
              /\ security' = {}
         ELSE /\ auth' = a
              /\ security' = IF a.status = "authorized" THEN a.results ELSE {}
              /\ IF a.status = "unauthorized"
                 THEN ProbeFailed(ps, UnauthorizedError(a.errors))
                 ELSE /\ probes' = ps
                      /\ pc' = IF a.status = "authorized" THEN "handler" ELSE "authorize"
                      /\ UNCHANGED <<thrown, route>>
  /\ UNCHANGED facade
  /\ UNCHANGED <<parsed, waiting, script>>
  /\ UNCHANGED <<req, res, log, raw, params, seen, own>>

\* Faulty variant: operationParams is built without the spread of params.
OperationParamsWithoutSpread(op, p) == [operation |-> op, data |-> Undefined]

\* const operationParams = {operation, security: {results: {}}, definition,
\* ...params}: the custom data, and whatever else params holds, is carried
\* over by the spread.
OperationParams(op, p) ==
  [k \in {"operation"} \cup DOMAIN p |-> IF k \in DOMAIN p THEN p[k] ELSE op]

\* await authorizers[name](req, res, operationParams, requirement) settles,
\* and authorizeRequest runs on to its next call, its return or its throw.
InvokeAuthorizerWriting(ok, error, written) ==
  /\ pc = "authorize"
  /\ operation.security[auth.alt][auth.sch] \in auth.registered
  /\ res' = [res EXCEPT !.headers = SetHeaders(@, written)]
  /\ own' = res'
  /\ log' = Append(log, Event("authorizer", auth.alt, operation.security[auth.alt][auth.sch]))
  /\ LET a == AfterAuthorizer(operation.security, auth, ok, error)
     IN  /\ auth' = a
         /\ security' = IF a.status = "authorized" THEN a.results ELSE security
         /\ IF a.status = "unauthorized"
            THEN ProbeFailed(probes, UnauthorizedError(a.errors))
            ELSE /\ pc' = IF a.status = "authorized" THEN "handler" ELSE "authorize"
                 /\ UNCHANGED <<thrown, route, probes>>
  /\ UNCHANGED facade
  /\ UNCHANGED <<parsed, waiting, script>>
  /\ seen' = Append(seen, Seen("authorizer", OperationParams(operation, params)))
  /\ UNCHANGED <<req, operation, hist, raw, params>>

\* The same for an authorizer that leaves the pending response alone.
InvokeAuthorizer(ok, error) == InvokeAuthorizerWriting(ok, error, <<>>)

\* await authorizers[name](...) settles for a name that authorizers inherits
\* and does not hold itself: the inherited function has returned, no callback
\* of the definition has run, and authorizeRequest runs on to its next call,
\* its return or its throw.
InvokeInheritedAuthorizer ==
  /\ pc = "authorize"
  /\ operation.security[auth.alt][auth.sch] \notin auth.registered
  /\ LET a == Advance(operation.security,
                      InheritedAuthorizer(operation.security[auth.alt][auth.sch], auth))
     IN  /\ auth' = a
         /\ security' = IF a.status = "authorized" THEN a.results ELSE security
         /\ IF a.status = "unauthorized"
            THEN ProbeFailed(probes, UnauthorizedError(a.errors))
            ELSE /\ pc' = IF a.status = "authorized" THEN "handler" ELSE "authorize"
                 /\ UNCHANGED <<thrown, route, probes>>
  /\ UNCHANGED facade
  /\ UNCHANGED <<parsed, waiting, script>>
  /\ UNCHANGED <<req, res, operation, log, hist, raw, params, seen, own>>

\* What an operation handler does: throw, or return a value after setting
\* (or not) statusCode and body on the pending response.
HandlerOutcomes ==
  {[do |-> "return", err |-> NoError, status |-> st, body |-> br[1], ret |-> br[2],
    headers |-> <<>>] :
     st \in {Undefined, Some(200)},
     br \in {<<BodyUndefined, BodyUndefined>>, <<BodyUndefined, BodyValue("returned")>>,
             <<BodyNull, BodyValue("returned")>>, <<BodyValue("set"), BodyValue("returned")>>}}
    \cup {[do |-> "throw", err |-> e, status |-> Undefined, body |-> BodyUndefined,
           ret |-> BodyUndefined, headers |-> <<>>] : e \in UserErrors}

\* The pending response as the handler leaves it.
HandlerWrites(r, o) ==
  [r EXCEPT !.statusCode = IF o.status = Undefined THEN @ ELSE o.status,
            !.headers = SetHeaders(@, o.headers),
            !.body = IF o.body.t = "undefined" THEN @ ELSE o.body]

\* res.body = res.body ?? resBody
ResolveBody(r, resBody) == [r EXCEPT !.body = CoalesceBody(@, resBody)]

\* res.statusCode = res.statusCode ?? getDefaultStatusCode(operation) throws
StatusThrows(r, op) == r.statusCode = Undefined /\ DefaultStatusThrows(op.responses)

\* Faulty variant: the default status code is never applied.
ResolveStatusSkipped(r, op) == r

\* res.statusCode = res.statusCode ?? getDefaultStatusCode(operation)
ResolveStatus(r, op) ==
  IF r.statusCode = Undefined
  THEN [r EXCEPT !.statusCode = Some(getDefaultStatusCode(op.responses))]
  ELSE r

\* Faulty variant: the body errors are handed to the strategy before the
\* headers are checked, so header errors are reported only for a valid body.
CollectedErrorsBodyFirst(bodyErrors, headerErrors) ==
  IF bodyErrors THEN <<"body">> ELSE IF headerErrors THEN <<"headers">> ELSE <<>>

\* validateResponse: errors.push(...bodyErrors); errors.push(...headerErrors).
\* The list handed to handleValidationErrors names, in order, the checks
\* that reported errors.
CollectedErrors(bodyErrors, headerErrors) ==
  (IF bodyErrors THEN <<"body">> ELSE <<>>) \o (IF headerErrors THEN <<"headers">> ELSE <<>>)

\* Faulty variant: the header errors are not added to the list.
ValidationThrowsBodyOnly(bodyErrors, headerErrors, strategy) ==
  bodyErrors /\ strategy = "throw"

\* Faulty variant: fail throws whatever the strategy.
ValidationThrowsAlways(bodyErrors, headerErrors, strategy) == bodyErrors \/ headerErrors

\* fail under any strategy but 'throw': this.logger.warn(message)
ValidationWarns(bodyErrors, headerErrors, strategy) ==
  (bodyErrors \/ headerErrors) /\ strategy # "throw"

\* validateResponse, handleValidationErrors, fail: the body errors and the
\* header errors are collected, and any error throws under 'throw'.
ValidationThrows(bodyErrors, headerErrors, strategy) ==
  (bodyErrors \/ headerErrors) /\ strategy = "throw"

\* The JSON body that the schema of a response code describes: the
\* representation of the resource for the codes below 400, a problem report
\* for the others. Each schema is that of an object, declares
\* additionalProperties: false, and requires the properties it declares,
\* which the other does not declare.
SchemaOf(code) == IF code < 400 THEN "resource" ELSE "problem"

\* The properties an object holds, for the objects that are bodies here: the
\* resource {name}, the resource with a property more, the problem report
\* {message}, an object of an undeclared property only, and {}.
Properties(shape) ==
  CASE shape = "resource" -> {"name"}
    [] shape = "resourceExtra" -> {"name", "extra"}
    [] shape = "problem" -> {"message"}
    [] shape = "other" -> {"extra"}
    [] OTHER -> {}

ObjectShapes == {"resource", "resourceExtra", "problem", "other", "empty"}

\* Any other body (undefined, null, a string) is no object.
IsObject(body) == body.t = "value" /\ body.v \in ObjectShapes

ObjectBody(props) ==
  BodyValue(CHOOSE shape \in ObjectShapes : Properties(shape) = props)

\* The validator generated for one response schema, run on the body: what it
\* reports and what it leaves of the body. It checks the type first; without
\* removeAdditional an undeclared property is an error, and with 'failing'
\* or 'all' it is deleted from the body, in place, before the declared
\* properties are looked at, the required ones among them: the deletions
\* stay when one of those is then found missing.
validate(schema, body, trimming) ==
  IF ~IsObject(body) THEN [valid |-> FALSE, body |-> body]
  ELSE IF trimming = "none"
       THEN [valid |-> Properties(body.v) = Properties(schema), body |-> body]
       ELSE LET kept == Properties(body.v) \cap Properties(schema)
            IN  [valid |-> kept = Properties(schema), body |-> ObjectBody(kept)]

\* Object.keys of the declared responses: keys that are numerals of integers
\* come in ascending order.
RECURSIVE Ascending(_)
Ascending(codes) ==
  IF codes = {} THEN <<>>
  ELSE LET least == CHOOSE c \in codes : \A d \in codes : c <= d
       IN  <<least>> \o Ascending(codes \ {least})

\* The validator of {oneOf: [the schemas of the declared responses]}: the
\* validators of the schemas run one after the other on the same body, each
\* on what the ones before it left, until two of them have passed.
RECURSIVE oneOf(_, _, _, _)
oneOf(codes, body, trimming, passing) ==
  IF codes = <<>> \/ passing = 2 THEN [passing |-> passing, body |-> body]
  ELSE LET v == validate(SchemaOf(Head(codes)), body, trimming)
       IN  oneOf(Tail(codes), v.body, trimming, IF v.valid THEN passing + 1 ELSE passing)

\* ajv._opts.removeAdditional = responseTrimming === 'none' ? false :
\* responseTrimming, for the validators of responses: the body as the
\* validators of the declared responses leave it.
removeAdditional(body, op, trimming) ==
  oneOf(Ascending(ResponseCodes(op.responses)), body, trimming, 0).body

\* const resBody = await operationHandler(req, res, operationParams): the
\* handler is invoked and settles. What it returned is kept (hist.ret) for
\* the lines after the await; what it threw goes to the catch of the probing
\* loop.
InvokeOperationHandler(o) ==
  /\ pc = "handler"
  /\ log' = Append(log, Event("handler", route.apis[route.api], ""))
  /\ LET h0 == [hist EXCEPT !.handlers = Append(@, route.apis[route.api])]
     IN  /\ res' = HandlerWrites(res, o)
         /\ IF o.do = "throw"
            THEN /\ ProbeFailed(probes, o.err)
                 /\ hist' = [h0 EXCEPT !.returned = FALSE]
            ELSE /\ hist' = [h0 EXCEPT !.returned = TRUE, !.statusPre = res'.statusCode,
                                       !.bodyPre = res'.body, !.ret = o.ret,
                                       !.resolved = Undefined, !.validated = FALSE]
                 /\ pc' = "resolve"
                 /\ UNCHANGED <<thrown, route, probes>>
  /\ UNCHANGED facade
  /\ UNCHANGED <<parsed, waiting, script>>
  /\ seen' = Append(seen, Seen("handler", OperationParams(operation, params)))
  /\ own' = res'
  /\ UNCHANGED <<req, operation, auth, security, raw, params>>

\* The body validateResponse hands to the validator is the object the
\* handler returned, and the validator trims that object: a handler that
\* returns one and the same object whenever it is invoked returns it, the
\* next time, as the validator left it.
Returned(sc, body) ==
  IF sc.fixed /\ sc.shared THEN [sc EXCEPT !.handler.ret = body] ELSE sc

\* The lines of the handler built by createHandler after that await: body and
\* status resolution and validateResponse, with the verdicts of the router
\* library on the body and on the headers; the validator of the body trims
\* it as responseTrimming says. The handler returns, and with it
\* api.handleRequest and routeAsync; handleAsync goes on after its own await.
ResolveResponse(bodyErrors, headerErrors) ==
  /\ pc = "resolve"
  /\ LET withBody == ResolveBody(res, hist.ret)
     IN  IF StatusThrows(withBody, operation)
         THEN /\ ProbeFailed(probes, PlainError("Cannot determine implicit status code"))
              /\ res' = withBody
              /\ hist' = hist
              /\ script' = script
         ELSE LET resolved == ResolveStatus(withBody, operation)
                  done == [resolved EXCEPT
                             !.body = removeAdditional(@, operation, responseTrimming)]
              IN  /\ res' = done
                  /\ script' = IF res.body.t \in {"undefined", "null"}
                               THEN Returned(script, done.body)
                               ELSE script
                  /\ hist' = [hist EXCEPT
                                !.resolved = done.statusCode, !.validated = TRUE,
                                !.bodyErrors = bodyErrors, !.headerErrors = headerErrors,
                                !.reported = CollectedErrors(bodyErrors, headerErrors),
                                !.warned = ValidationWarns(bodyErrors, headerErrors,
                                                           invalidResponseStrategy)]
                  /\ IF ValidationThrows(bodyErrors, headerErrors, invalidResponseStrategy)
                     THEN ProbeFailed(probes, PlainError("Response doesn't match schema"))
                     ELSE /\ probes' = [probes EXCEPT ![Len(probes)].end = "returned"]
                          /\ pc' = "finalize"
                          /\ UNCHANGED <<thrown, route>>
  /\ UNCHANGED facade
  /\ UNCHANGED <<parsed, waiting>>
  /\ own' = res'
  /\ UNCHANGED <<req, operation, auth, security, log, raw, params, seen>>

\* The end of handleAsync, after the await of routeAsync or of the error
\* handler: res.statusCode = res.statusCode ?? 500 on the pending response,
\* and the RawResponse that formatResponse makes of it is returned.
HandleAsyncReturns ==
  /\ pc = "finalize"
  /\ res' = [res EXCEPT !.statusCode = Coalesce(@, Some(500))]
  /\ raw' = formatResponse(res')
  /\ pc' = "returned"
  /\ own' = res'
  /\ UNCHANGED facade
  /\ UNCHANGED <<parsed, waiting, script>>
  /\ UNCHANGED <<req, thrown, route, operation, auth, security, probes, log, hist, params, seen>>

\* api.validateResponse(body, operation), called without a status code:
\* the router library checks the body against the schemas of all declared
\* responses, combined with oneOf, and reports errors unless exactly one of
\* them passes; an operation that declares no response schema has no
\* validator and no errors.
apiValidateResponse(body, op, trimming) ==
  /\ ResponseCodes(op.responses) # {}
  /\ oneOf(Ascending(ResponseCodes(op.responses)), body, trimming, 0).passing # 1

\* The headers a response code declares: Location for the codes 201 to 399.
DeclaredHeaders(code) == IF code > 200 /\ code < 400 THEN {"location"} ELSE {}

\* api.validateResponseHeaders(headers, operation, {statusCode, setMatchType:
\* Superset}): the headers must hold every header declared for the status
\* code and may hold others; a status code that is not declared has no
\* validator.
apiValidateResponseHeaders(headers, op, statusCode) ==
  \E code \in statusCode \cap ResponseCodes(op.responses) : ~(DeclaredHeaders(code) \subseteq DOMAIN headers)

\* The same lines with the verdicts of the router library on the response as
\* the resolution of body and status leaves it.
ValidateResponse ==
  LET withBody == ResolveBody(res, hist.ret)
      throws == StatusThrows(withBody, operation)
  IN  ResolveResponse(
        ~throws /\ apiValidateResponse(withBody.body, operation, responseTrimming),
        ~throws /\ apiValidateResponseHeaders(withBody.headers, operation,
                                              ResolveStatus(withBody, operation).statusCode))

\* Faulty variant: the error handler is handed a response of its own.
HandedResponseFresh(r) == NewResponse

\* this.errorHandlerAsync(req, res, params, err): res is the object the
\* pipeline was filling, with what it holds.
HandedResponse(r) == r

\* await this.errorHandlerAsync(req, res, params, err) with the default
\* handler: it writes statusCode and body, and handleAsync goes on after the
\* await.
DefaultErrorHandler ==
  /\ pc = "catch"
  /\ errorHandlerAsync = "default"
  /\ log' = Append(log, Event("errorHandler", 0, thrown.kind))
  /\ res' = defaultErrorHandler(HandedResponse(res), thrown)
  /\ hist' = [hist EXCEPT !.eh = "ran", !.ehRes = res', !.caught = res]
  /\ pc' = "finalize"
  /\ UNCHANGED facade
  /\ UNCHANGED <<parsed, waiting, script>>
  /\ seen' = Append(seen, Seen("errorHandler", params))
  /\ own' = res'
  /\ UNCHANGED <<req, thrown, route, operation, auth, security, probes, raw, params>>

\* What a user-supplied error handler does: write a status and a body, leave
\* the pending response as it is, or throw.
CustomOutcomes == {"set", "leave", "throw"}

\* The same with a user-supplied error handler.
CustomErrorHandler(o) ==
  /\ pc = "catch"
  /\ errorHandlerAsync = "custom"
  /\ log' = Append(log, Event("errorHandler", 0, thrown.kind))
  /\ res' = IF o = "set"
            THEN [HandedResponse(res) EXCEPT !.statusCode = Some(418),
                                             !.body = BodyValue("custom")]
            ELSE HandedResponse(res)
  /\ hist' = [hist EXCEPT !.eh = IF o = "throw" THEN "threw" ELSE "ran", !.ehRes = res',
                           !.caught = res]
  /\ pc' = IF o = "throw" THEN "rejected" ELSE "finalize"
  /\ UNCHANGED facade
  /\ UNCHANGED <<parsed, waiting, script>>
  /\ seen' = Append(seen, Seen("errorHandler", params))
  /\ own' = res'
  /\ UNCHANGED <<req, thrown, route, operation, auth, security, probes, raw, params>>

\* A continuation that a callback of the running call left behind when it
\* settled writes a status to the pending response, while the call stands at
\* one of its awaits.
LateWrite ==
  /\ log # <<>>
  /\ pc \notin {"idle", "returned", "rejected"}
  /\ res.statusCode # Some(299)
  /\ res' = [res EXCEPT !.statusCode = Some(299)]
  /\ own' = res'
  /\ UNCHANGED facade
  /\ UNCHANGED <<parsed, waiting, script>>
  /\ UNCHANGED <<pc, req, thrown, route, operation, auth, security, probes, log, hist, raw,
                 params, seen>>

\* ------------------------------------------------------------ concurrent calls

\* handleAsync calls one facade serves in one behaviour.
MaxCalls == 2

\* The locals of the running handleAsync call (req, params, res, and the
\* locals of routeAsync and of the handler built by createHandler), as the
\* call keeps them while it waits at an await.
Frame ==
  [pc |-> pc, req |-> req, res |-> res, thrown |-> thrown, route |-> route,
   operation |-> operation, auth |-> auth, security |-> security, probes |-> probes,
   log |-> log, hist |-> hist, raw |-> raw, params |-> params, seen |-> seen, own |-> own]

\* A handleAsync call that has not been made yet.
IdleFrame ==
  [pc |-> "idle", req |-> [headers |-> "object", method |-> "string", path |-> "string"],
   res |-> NewResponse, thrown |-> NoError, route |-> NoRoute, operation |-> NoOperation,
   auth |-> NoAuth, security |-> {}, probes |-> <<>>, log |-> <<>>, hist |-> NoHist,
   raw |-> NoRaw, params |-> NoParams, seen |-> <<>>, own |-> NewResponse]

\* Faulty variant: the pending response is a field of the facade, so a call
\* that is resumed works on the one the call before it used.
PendingResponseShared(mine, current) == current

\* const res: Response = {headers: {}} is a local of handleAsync: a call that
\* is resumed works on its own.
PendingResponse(mine, current) == mine

\* The running call waits at an await and the k-th waiting call goes on (or
\* handleAsync is called once more, when that one has not been made yet).
Resume(k) ==
  /\ k \in 1..Len(waiting)
  /\ waiting' = [waiting EXCEPT ![k] = Frame]
  /\ LET f == waiting[k]
     IN  /\ pc' = f.pc
         /\ req' = f.req
         /\ res' = PendingResponse(f.res, res)
         /\ thrown' = f.thrown
         /\ route' = f.route
         /\ operation' = f.operation
         /\ auth' = f.auth
         /\ security' = f.security
         /\ probes' = f.probes
         /\ log' = f.log
         /\ hist' = f.hist
         /\ raw' = f.raw
         /\ params' = f.params
         /\ seen' = f.seen
         /\ own' = f.own
  /\ UNCHANGED facade
  /\ UNCHANGED <<parsed, script>>

\* ------------------------------------------------------------ parseRequest

\* The strings a raw parameter holds, and those the elements of an array hold.
RawStrings == {"2", "02", "true", "INVALID"}

ItemStrings == {"1", "02", "INVALID"}

\* OneOrMany<string>
RawValues ==
  {StringValue(x) : x \in RawStrings}
    \cup {ArrayValue([i \in 1..Len(q) |-> StringValue(q[i])]) : q \in SeqsUpTo(ItemStrings, MaxItems)}

\* The parameter names of the operation and of the request.
ParamNames == {"foo", "bar"}

\* StringParams: the raw parameters of one location.
RawMaps == UNION {[D -> RawValues] : D \in SUBSET ParamNames}

\* The locations of parameters, and the field of the request that holds the
\* parameters of each.
Locations == {"path", "header", "query", "cookie"}

Field(location) ==
  CASE location = "path" -> "params"
    [] location = "header" -> "headers"
    [] location = "query" -> "query"
    [] OTHER -> "cookies"

\* A parameter schema: a scalar type, an array of numbers, or {} (any).
ScalarSchema(type) == [type |-> type, items |-> ""]

ArraySchema(items) == [type |-> "array", items |-> items]

EmptySchema == [type |-> "any", items |-> ""]

\* One entry of operation.parameters.
Parameter(location, name, required, schema) ==
  [in |-> location, name |-> name, required |-> required, schema |-> schema]

\* The ways one name is declared for a location (or not at all): the
\* entries of operation.parameters that name it.
Declarations(location, name) ==
  {<<>>}
    \cup {<<Parameter(location, name, FALSE, sch)>> :
           sch \in {ScalarSchema("number"), ScalarSchema("boolean"), ScalarSchema("string"),
                    ArraySchema("number"), EmptySchema}}
    \cup {<<Parameter(location, name, TRUE, ScalarSchema("number"))>>}

\* The entries of the list parameters with `in` equal to type, in their
\* order.
RECURSIVE SelectParameters(_, _)
SelectParameters(parameters, type) ==
  IF parameters = <<>> THEN <<>>
  ELSE IF Head(parameters).in = type
       THEN <<Head(parameters)>> \o SelectParameters(Tail(parameters), type)
       ELSE SelectParameters(Tail(parameters), type)

\* The schema built from the list declared: properties holds the schema of
\* each name (the last one declared for it), order the names as the
\* properties were inserted, required the names pushed, in the order of the
\* list.
ParamSchema(declared) ==
  LET names == {declared[i].name : i \in 1..Len(declared)}
      last(name) == CHOOSE i \in 1..Len(declared) :
                      /\ declared[i].name = name
                      /\ \A j \in 1..Len(declared) : declared[j].name = name => j <= i
      first == [i \in 1..Len(declared) |->
                 \A j \in 1..Len(declared) : declared[j].name = declared[i].name => i <= j]
      RECURSIVE pick(_, _)
      pick(i, required) ==
        IF i > Len(declared) THEN <<>>
        ELSE IF (required /\ declared[i].required) \/ (~required /\ first[i])
             THEN <<declared[i].name>> \o pick(i + 1, required)
             ELSE pick(i + 1, required)
  IN  [required |-> pick(1, TRUE),
       properties |-> [name \in names |-> declared[last(name)].schema],
       order |-> pick(1, FALSE),
       additionalProperties |-> TRUE]

\* Faulty variant: the location of a parameter is not looked at.
getParametersSchemaAnyLocation(parameters, type) ==
  ParamSchema(parameters)

\* getParametersSchema: the properties and the required names of the
\* parameters declared with `in` equal to type; additionalProperties is true.
getParametersSchema(parameters, type) ==
  ParamSchema(SelectParameters(parameters, type))

\* The strings ajv takes for a number (data == +data), with the number.
IsNumeric(x) == x \in {"1", "2", "02"}

NumberOf(x) == CASE x = "1" -> 1 [] OTHER -> 2

\* ajv's coercion of a scalar to a scalar type: [ok, value]; a value that
\* cannot be coerced is left as it is and reported.
coerceScalar(type, v) ==
  CASE type = "number" ->
         IF v.t = "string" /\ IsNumeric(v.s)
         THEN [ok |-> TRUE, value |-> NumberValue(NumberOf(v.s))]
         ELSE [ok |-> v.t = "number", value |-> v]
    [] type = "boolean" ->
         IF v.t = "string" /\ v.s \in {"true", "false"}
         THEN [ok |-> TRUE, value |-> BooleanValue(v.s = "true")]
         ELSE [ok |-> v.t = "boolean", value |-> v]
    [] OTHER -> [ok |-> v.t = "string", value |-> v]

\* ajv's validation with coerceTypes: 'array' of one value against one
\* parameter schema. A scalar is wrapped for an array schema and the items
\* are coerced one by one up to the first that cannot be, which ends the
\* validation: the items after it are left as they are. An array of one
\* element is unwrapped for a scalar schema, and written back unwrapped only
\* when the element could be coerced. {} accepts anything unchanged.
coerce(schema, v) ==
  CASE schema.type = "any" -> [ok |-> TRUE, value |-> v]
    [] schema.type = "array" ->
         LET arr == IF v.t = "array" THEN v.items ELSE <<v>>
             each == [i \in 1..Len(arr) |-> coerceScalar(schema.items, arr[i])]
             failed == {i \in 1..Len(arr) : ~each[i].ok}
         IN  [ok |-> failed = {},
              value |-> ArrayValue([i \in 1..Len(arr) |->
                                      IF \A j \in failed : i < j THEN each[i].value
                                      ELSE arr[i]])]
    [] OTHER ->
         LET x == IF v.t = "array" /\ Len(v.items) = 1 THEN v.items[1] ELSE v
             coerced == coerceScalar(schema.type, x)
         IN  IF x.t # "array" /\ coerced.ok THEN coerced
             ELSE [ok |-> FALSE, value |-> v]

\* Faulty variant: the object handed to ajv is the caller's object itself.
cloneObjectSameObject(source) == [object |-> "source", value |-> source]

\* cloneObject, JSON.parse(JSON.stringify(source)): another object that holds
\* the same names and, for strings and arrays of strings, the same values.
cloneObject(source) == [object |-> "copy", value |-> [k \in DOMAIN source |-> source[k]]]

\* The key under which the ajv instance keeps a compiled validator: the
\* schema serialized with the keys of every object sorted. The order of the
\* array required shows in it, the order in which the properties were
\* inserted does not.
CacheKey(schema) == [required |-> schema.required, properties |-> schema.properties]

\* ajv.compile(schema), what it returns: the validator the instance keeps
\* under the key of the schema when it has compiled one, which goes through
\* the properties in the order of the schema it was compiled from; a
\* validator of this schema otherwise.
compile(instance, schema) ==
  IF \E e \in instance.cache : e.key = CacheKey(schema)
  THEN [schema EXCEPT !.order = (CHOOSE e \in instance.cache : e.key = CacheKey(schema)).order]
  ELSE schema

\* ajv.compile(schema), what it leaves: the instance keeps the validator of
\* a schema whose key it did not hold.
Compiled(instance, schema) ==
  IF \E e \in instance.cache : e.key = CacheKey(schema) THEN instance
  ELSE [instance EXCEPT !.cache = @ \cup {[key |-> CacheKey(schema), order |-> schema.order]}]

\* The checks of the validator ajv generates for the schema, in the order it
\* makes them. A required name whose property has no schema of its own ({})
\* is checked before the properties, in the order of required; the
\* properties follow in their order, and a required name whose property
\* has a schema is checked where that property is validated.
Checks(schema) ==
  LET deferred(name) == schema.properties[name].type # "any"
      needed(name) == \E i \in 1..Len(schema.required) : schema.required[i] = name
      upfront == SelectSeq(schema.required, LAMBDA name : ~deferred(name))
  IN  [i \in 1..Len(upfront) |-> [name |-> upfront[i], required |-> TRUE, validate |-> FALSE]]
        \o [i \in 1..Len(schema.order) |->
              [name |-> schema.order[i],
               required |-> needed(schema.order[i]) /\ deferred(schema.order[i]),
               validate |-> TRUE]]

\* matchSchema: a copy of source validated (and coerced in place) by the
\* validator compiled for schema, which ends at the first error it finds
\* (allErrors is not set): the values of the properties validated up to
\* there are coerced, the others are left. The result and the errors (none
\* or one), each error as the name and the keyword. source is what the
\* object of the caller holds afterwards: what ajv wrote when it was handed
\* that very object, and what it held before otherwise.
matchSchema(source, schema) ==
  LET result == cloneObject(source)
      checks == Checks(schema)
      absent(c) == c.name \notin DOMAIN result.value
      fails(c) ==
        \/ c.required /\ absent(c)
        \/ /\ c.validate
           /\ ~absent(c)
           /\ ~coerce(schema.properties[c.name], result.value[c.name]).ok
      failed == {i \in 1..Len(checks) : fails(checks[i])}
      reached(k) == \E i \in 1..Len(checks) :
                      checks[i].name = k /\ checks[i].validate /\ \A j \in failed : i <= j
      validated == [k \in DOMAIN result.value |->
                      IF reached(k) THEN coerce(schema.properties[k], result.value[k]).value
                      ELSE result.value[k]]
      first == CHOOSE i \in failed : \A j \in failed : i <= j
  IN  [result |-> validated,
       errors |-> IF failed = {} THEN {}
                  ELSE {[dataPath |-> checks[first].name,
                         keyword |-> IF absent(checks[first]) THEN "required" ELSE "type"]},
       source |-> IF result.object = "source" THEN validated ELSE source]

\* parseRequest: the parameters of the four locations are matched, path,
\* header, query, cookie, each against the schema of the parameters declared
\* for it as the ajv instance compiles it at that point, and any error
\* throws (handleValidationErrors with 'throw') before the Request is
\* returned. The four schemas, the instance after each compilation and the
\* four matches are each bound to the one value they have.
ParseRequest ==
  /\ parsed.status = "raw"
  /\ \E schemas \in {[i \in 1..4 |->
                        getParametersSchema(parsed.operation.parameters,
                                            <<"path", "header", "query", "cookie">>[i])]} :
     \E second \in {Compiled(parsed.ajv, schemas[1])} :
     \E third \in {Compiled(second, schemas[2])} :
     \E fourth \in {Compiled(third, schemas[3])} :
     \E p \in {[location \in Locations |->
                 LET order == <<"path", "header", "query", "cookie">>
                     before == <<parsed.ajv, second, third, fourth>>
                     i == CHOOSE j \in 1..Len(order) : order[j] = location
                 IN  matchSchema(parsed.request[Field(location)],
                                 compile(before[i], schemas[i]))]} :
     LET errors == UNION {{[in |-> location, dataPath |-> e.dataPath, keyword |-> e.keyword] :
                             e \in p[location].errors} : location \in Locations}
     IN  parsed' = [parsed EXCEPT
                      !.request = [f \in DOMAIN parsed.request |->
                                     p[CHOOSE l \in Locations : Field(l) = f].source],
                      !.req = [params |-> p["path"].result, headers |-> p["header"].result,
                               query |-> p["query"].result, cookies |-> p["cookie"].result],
                      !.errors = errors,
                      !.ajv = Compiled(fourth, schemas[4]),
                      !.status = IF errors = {} THEN "parsed" ELSE "threw"]
  /\ UNCHANGED facade
  /\ UNCHANGED <<pc, req, res, thrown, route, operation, auth, security, probes, log, hist, raw>>
  /\ UNCHANGED <<params, seen, own, waiting, script>>

\* ------------------------------------------------------------ specifications

\* The whole pipeline for one call on a facade that is set up before the call
\* is made (definitions and interceptors registered while a call runs are
\* followed in SpecRegistering); the initializations settle at any time.
Next ==
  \/ pc = "idle" /\ Register
  \/ \E i \in 1..MaxApis, ok \in BOOLEAN : CreateApiAsync(i, ok)
  \/ pc = "idle" /\ \E n \in 0..MaxInterceptors : Intercept(n)
  \/ \E r \in RawRequests : HandleAsync(r, Undefined)
  \/ GetApisAsync
  \/ \E o \in InterceptorOutcomes : InvokeInterceptor(o)
  \/ \E m \in {"notFound", "notImplemented"} : HandleRequestFails(m, <<>>)
  \/ \E errors \in ValidationErrorLists : HandleRequestFails("validationFail", errors)
  \/ \E op \in Operations, ce \in BOOLEAN : HandleRequestMatches(Declaring(op), ce)
  \/ InvokeAuthorizer(TRUE, NoError)
  \/ \E e \in AuthorizerErrors : InvokeAuthorizer(FALSE, e)
  \/ \E o \in HandlerOutcomes : InvokeOperationHandler(o)
  \/ \E be \in BOOLEAN, he \in BOOLEAN : ResolveResponse(be, he)
  \/ DefaultErrorHandler
  \/ \E o \in CustomOutcomes : CustomErrorHandler(o)
  \/ HandleAsyncReturns

Spec == Init /\ [][Next]_vars

\* authorizeRequest on its own: one definition is registered and ready, the
\* router has matched an operation with any security list within the bounds,
\* and the call stands at the entry of authorizeRequest.
InitAuthorize ==
  /\ errorHandlerAsync = "default"
  /\ invalidResponseStrategy = "warn"
  /\ responseTrimming = "failing"
  /\ interceptors = <<>>
  /\ apiPromises = <<"fulfilled">>
  /\ settled = <<1>>
  /\ req = [headers |-> "object", method |-> "string", path |-> "string"]
  /\ res = NewResponse
  /\ thrown = NoError
  /\ route = [all |-> 1, apis |-> <<1>>, ic |-> 1, api |-> 1, err |-> NoError]
  /\ \E sec \in SecurityLists :
       /\ operation = MatchedOperation(Declaring([security |-> sec, responses |-> {"201"}]))
       /\ auth = BeginAuthorize(sec)
  /\ security = IF auth.status = "authorized" THEN auth.results ELSE {}
  /\ pc = IF auth.status = "authorized" THEN "handler" ELSE "authorize"
  /\ probes = <<NewProbe(1, "matched")>>
  /\ log = <<>>
  /\ hist = NoHist
  /\ raw = NoRaw
  /\ parsed = NoParse
  /\ params = NoParams
  /\ seen = <<>>
  /\ own = NewResponse
  /\ waiting = <<>>
  /\ script = NoScript

NextAuthorize ==
  \/ InvokeAuthorizer(TRUE, NoError)
  \/ \E e \in AuthorizerErrors : InvokeAuthorizer(FALSE, e)

SpecAuthorize == InitAuthorize /\ [][NextAuthorize]_vars

\* Registration at any time: register and intercept are called before and
\* while the call runs (by a callback of the call or by any other code
\* between two of its awaits), and the initializations settle at any time.
\* The router of a definition matches an operation without security or
\* reports not-found; interceptors and the handler return or throw.
NextRegistering ==
  \/ Register
  \/ \E i \in 1..MaxApis, ok \in BOOLEAN : CreateApiAsync(i, ok)
  \/ \E n \in 0..MaxInterceptors : Intercept(n)
  \/ \E r \in {q \in RawRequests : q.method = "string" /\ q.path = "string"} :
       HandleAsync(r, Undefined)
  \/ GetApisAsync
  \/ \E o \in {i \in InterceptorOutcomes : i.do = "throw" => i.err = PlainError("boom")} :
       InvokeInterceptor(o)
  \/ HandleRequestFails("notFound", <<>>)
  \/ HandleRequestMatches(Declaring([security |-> <<>>, responses |-> {"201"}]), FALSE)
  \/ \E o \in {h \in HandlerOutcomes :
                  /\ h.do = "throw" => h.err = PlainError("boom")
                  /\ h.do = "return" =>
                       h.status = Undefined /\ h.body.t = "undefined" /\ h.ret.t = "value"} :
       InvokeOperationHandler(o)
  \/ ResolveResponse(FALSE, FALSE)
  \/ DefaultErrorHandler
  \/ CustomErrorHandler("leave")
  \/ HandleAsyncReturns

SpecRegistering == Init /\ [][NextRegistering]_vars

\* The same call with authorizers that throw any of the scheme errors,
\* followed to the answer of the default error handler.
NextUnauthorized ==
  \/ InvokeAuthorizer(TRUE, NoError)
  \/ \E e \in SchemeErrors : InvokeAuthorizer(FALSE, e)
  \/ DefaultErrorHandler
  \/ HandleAsyncReturns

SpecUnauthorized == InitAuthorize /\ [][NextUnauthorized]_vars

\* parseRequest on its own: the router has matched an operation and hands
\* the handler built by createHandler an apiContext. One location holds any
\* raw parameters within the bounds, with each name declared for it in any
\* of the ways above; every other location holds the string "2" under foo,
\* which the operation declares as a number for the next location only. The
\* ajv instance has compiled nothing yet, or it has compiled, for an
\* operation handled earlier, a schema of the same two properties declared
\* the other way round (with the same array required, so at most one of the
\* two is required).
NextLocation(location) ==
  CASE location = "path" -> "header"
    [] location = "header" -> "query"
    [] location = "query" -> "cookie"
    [] OTHER -> "path"

InitCoerce ==
  /\ errorHandlerAsync = "default"
  /\ invalidResponseStrategy = "warn"
  /\ responseTrimming = "failing"
  /\ interceptors = <<>>
  /\ apiPromises = <<"fulfilled">>
  /\ settled = <<1>>
  /\ pc = "probe"
  /\ req = [headers |-> "object", method |-> "string", path |-> "string"]
  /\ res = NewResponse
  /\ thrown = NoError
  /\ route = [all |-> 1, apis |-> <<1>>, ic |-> 1, api |-> 1, err |-> NoError]
  /\ operation = NoOperation
  /\ auth = NoAuth
  /\ security = {}
  /\ probes = <<>>
  /\ log = <<>>
  /\ hist = NoHist
  /\ raw = NoRaw
  /\ params = NoParams
  /\ seen = <<>>
  /\ own = NewResponse
  /\ waiting = <<>>
  /\ script = NoScript
  /\ \E location \in Locations, m \in RawMaps, earlier \in BOOLEAN :
     \E foo \in Declarations(location, "foo"), bar \in Declarations(location, "bar") :
       /\ earlier => foo # <<>> /\ bar # <<>> /\ Len(ParamSchema(foo \o bar).required) < 2
       /\ parsed = [status |-> "raw",
                   location |-> location,
                   request |-> [f \in {Field(l) : l \in Locations} |->
                                  IF f = Field(location) THEN m
                                  ELSE [k \in {"foo"} |-> StringValue("2")]],
                   received |-> [f \in {Field(l) : l \in Locations} |->
                                   IF f = Field(location) THEN m
                                   ELSE [k \in {"foo"} |-> StringValue("2")]],
                   operation |-> [parameters |->
                                    foo \o bar
                                      \o <<Parameter(NextLocation(location), "foo", FALSE,
                                                     ScalarSchema("number"))>>],
                   req |-> <<>>,
                   errors |-> {},
                   ajv |-> [cache |->
                              IF earlier
                              THEN {[key |-> CacheKey(ParamSchema(foo \o bar)),
                                     order |-> <<"bar", "foo">>]}
                              ELSE {}]]

NextCoerce == ParseRequest

SpecCoerce == InitCoerce /\ [][NextCoerce]_vars

\* Concurrent calls: a facade with one definition, ready, and one
\* interceptor serves MaxCalls handleAsync calls, which take turns at their
\* awaits in any order; a callback may go on writing to the pending response
\* of its call after it settled. The operation matched names one scheme.
InitConcurrent ==
  /\ errorHandlerAsync \in {"default", "custom"}
  /\ invalidResponseStrategy = "warn"
  /\ responseTrimming = "failing"
  /\ interceptors = <<1>>
  /\ apiPromises = <<"fulfilled">>
  /\ settled = <<1>>
  /\ pc = "idle"
  /\ req = [headers |-> "object", method |-> "string", path |-> "string"]
  /\ res = NewResponse
  /\ thrown = NoError
  /\ route = NoRoute
  /\ operation = NoOperation
  /\ auth = NoAuth
  /\ security = {}
  /\ probes = <<>>
  /\ log = <<>>
  /\ hist = NoHist
  /\ raw = NoRaw
  /\ parsed = NoParse
  /\ params = NoParams
  /\ seen = <<>>
  /\ own = NewResponse
  /\ waiting = [k \in 1..(MaxCalls - 1) |-> IdleFrame]
  /\ script = NoScript

ConcurrentInterceptorOutcomes ==
  {o \in InterceptorOutcomes : o.do = "throw" => o.err = PlainError("boom")}

ConcurrentOperations == [security : {<< <<"A">> >>}, responses : {{"201"}}]

ConcurrentHandlerOutcomes ==
  {o \in HandlerOutcomes :
     /\ o.do = "throw" => o.err = PlainError("boom")
     /\ o.do = "return" => o.status = Some(200) /\ o.body.t = "undefined" /\ o.ret.t = "value"}

NextConcurrent ==
  \/ HandleAsync([headers |-> "object", method |-> "string", path |-> "string"], Undefined)
  \/ GetApisAsync
  \/ \E o \in ConcurrentInterceptorOutcomes : InvokeInterceptor(o)
  \/ \E op \in ConcurrentOperations : HandleRequestMatches(Declaring(op), FALSE)
  \/ InvokeAuthorizer(TRUE, NoError)
  \/ InvokeAuthorizer(FALSE, PlainError("boom"))
  \/ \E o \in ConcurrentHandlerOutcomes : InvokeOperationHandler(o)
  \/ ResolveResponse(FALSE, FALSE)
  \/ DefaultErrorHandler
  \/ \E o \in {"set", "leave"} : CustomErrorHandler(o)
  \/ HandleAsyncReturns
  \/ LateWrite
  \/ \E k \in 1..(MaxCalls - 1) : Resume(k)

SpecConcurrent == InitConcurrent /\ [][NextConcurrent]_vars

\* Repeated calls: the callbacks of the facade and the router answer the
\* same way whenever they are asked (script says how), and handleAsync is
\* called again with the same request and the same custom data after each
\* call has ended. The operation handler returns a body object, a new one
\* at each invocation or (shared) one and the same; the response validator
\* is the one of the pipeline.
ScriptedInterceptorOutcomes ==
  {o \in InterceptorOutcomes : o.do = "throw" => o.err = PlainError("boom")}

ScriptedOperations ==
  {[security |-> <<>>, responses |-> {"201"}],
   [security |-> <<>>, responses |-> {"201", "404"}],
   [security |-> << <<"A">>, <<"B">> >>, responses |-> {"201"}],
   [security |-> <<>>, responses |-> {}]}

ScriptedHandlerOutcomes ==
  [do : {"return"}, err : {NoError}, status : {Undefined, Some(200)}, body : {BodyUndefined},
   ret : {BodyValue("resource"), BodyValue("resourceExtra"), BodyValue("problem")},
   headers : {<<>>, [k \in {"location"} |-> StringValue("2")]}]
    \cup {[do |-> "throw", err |-> HttpError("Forbidden", 403), status |-> Undefined,
           body |-> BodyUndefined, ret |-> BodyUndefined, headers |-> <<>>]}

ScriptedRequests ==
  {r \in RawRequests : r.path = "string" /\ (r.headers = "undefined" => r.method = "string")}

\* The answers nobody asks for are the same in every script: those of the
\* router and of everything behind it for a request that is no RawRequest,
\* those of the authorizers and the handler for a route that is not found,
\* those of the authorizers for an operation without security, that of a
\* user-supplied error handler for a facade without one; the handler is
\* varied for the operations without security only.
Scripts(n) ==
  {sc \in [fixed : {TRUE},
           req : ScriptedRequests,
           data : {Some("session")},
           interceptor : [1..n -> ScriptedInterceptorOutcomes],
           match : {"notFound", "matched"},
           operation : ScriptedOperations,
           authorizer : [SchemeNames -> BOOLEAN],
           handler : ScriptedHandlerOutcomes,
           shared : BOOLEAN,
           custom : CustomOutcomes] :
     LET plain == /\ sc.handler.do = "return" /\ sc.handler.status = Undefined
                  /\ sc.handler.ret = BodyValue("resource") /\ sc.handler.headers # <<>>
                  /\ ~sc.shared
         open == \A name \in SchemeNames : sc.authorizer[name]
     IN  /\ ~isRawRequest(sc.req) =>
              /\ sc.match = "notFound"
              /\ \A i \in 1..n : sc.interceptor[i].do = "return"
         /\ sc.match = "notFound" => sc.operation.security = <<>> /\ sc.operation.responses = {"201"} /\ plain
         /\ sc.operation.security = <<>> => open
         /\ sc.operation.security # <<>> => plain
         /\ sc.handler.do = "throw" => ~sc.shared}

InitRepeated ==
  /\ errorHandlerAsync \in {"default", "custom"}
  /\ invalidResponseStrategy \in {"warn", "throw"}
  /\ responseTrimming = "failing"
  /\ \E n \in 0..MaxInterceptors :
       /\ interceptors = [i \in 1..n |-> i]
       /\ script \in Scripts(n)
  /\ errorHandlerAsync = "default" => script.custom = "leave"
  /\ apiPromises = <<"fulfilled">>
  /\ settled = <<1>>
  /\ pc = "idle"
  /\ req = [headers |-> "object", method |-> "string", path |-> "string"]
  /\ res = NewResponse
  /\ thrown = NoError
  /\ route = NoRoute
  /\ operation = NoOperation
  /\ auth = NoAuth
  /\ security = {}
  /\ probes = <<>>
  /\ log = <<>>
  /\ hist = NoHist
  /\ raw = NoRaw
  /\ parsed = NoParse
  /\ params = NoParams
  /\ seen = <<>>
  /\ own = NewResponse
  /\ waiting = [k \in 1..(MaxCalls - 1) |-> IdleFrame]

\* The running call has ended and handleAsync is called once more.
Again ==
  /\ pc \in {"returned", "rejected"}
  /\ \E k \in 1..Len(waiting) :
       /\ waiting[k].pc = "idle"
       /\ \A j \in 1..(k - 1) : waiting[j].pc # "idle"
       /\ Resume(k)

NextRepeated ==
  \/ HandleAsync(script.req, script.data)
  \/ GetApisAsync
  \/ pc = "intercept" /\ InvokeInterceptor(script.interceptor[NextInterceptor(interceptors, route.ic)])
  \/ script.match = "notFound" /\ HandleRequestFails("notFound", <<>>)
  \/ script.match = "matched" /\ HandleRequestMatches(Declaring(script.operation), FALSE)
  \/ /\ pc = "authorize"
     /\ LET ok == script.authorizer[operation.security[auth.alt][auth.sch]]
        IN  InvokeAuthorizer(ok, IF ok THEN NoError ELSE PlainError("boom"))
  \/ InvokeOperationHandler(script.handler)
  \/ ValidateResponse
  \/ DefaultErrorHandler
  \/ CustomErrorHandler(script.custom)
  \/ HandleAsyncReturns
  \/ Again

SpecRepeated == InitRepeated /\ [][NextRepeated]_vars

\* The choice of the security requirements: one definition is registered and
\* ready, and the router matches an operation that declares any security
\* list within the bounds or none, in a definition that declares any or
\* none; the authorizers are followed up to the handler or the throw.
OptionalSecurityLists == {Undefined} \cup {Some(l) : l \in SecurityLists}

InitSecurity ==
  /\ errorHandlerAsync = "default"
  /\ invalidResponseStrategy = "warn"
  /\ responseTrimming = "failing"
  /\ interceptors = <<>>
  /\ apiPromises = <<"fulfilled">>
  /\ settled = <<1>>
  /\ pc = "probe"
  /\ req = [headers |-> "object", method |-> "string", path |-> "string"]
  /\ res = NewResponse
  /\ thrown = NoError
  /\ route = [all |-> 1, apis |-> <<1>>, ic |-> 1, api |-> 1, err |-> NoError]
  /\ operation = NoOperation
  /\ auth = NoAuth
  /\ security = {}
  /\ probes = <<>>
  /\ log = <<>>
  /\ hist = NoHist
  /\ raw = NoRaw
  /\ parsed = NoParse
  /\ params = NoParams
  /\ seen = <<>>
  /\ own = NewResponse
  /\ waiting = <<>>
  /\ script = NoScript

\* The lists an operation and its definition declare together: any list of
\* the operation under a definition that declares none, an empty one or one
\* scheme, and any list of the definition under an operation that declares
\* none.
SecurityDeclarations ==
  (OptionalSecurityLists \X {Undefined, Some(<<>>), Some(<< <<"A">> >>)})
    \cup ({Undefined} \X OptionalSecurityLists)

NextSecurity ==
  \/ \E d \in SecurityDeclarations :
       HandleRequestMatches(ApiContext(d[1], d[2], {"201"}), FALSE)
  \/ InvokeAuthorizer(TRUE, NoError)
  \/ InvokeAuthorizer(FALSE, PlainError("boom"))

SpecSecurity == InitSecurity /\ [][NextSecurity]_vars

\* Response validation: the handler of a matched operation without security
\* is about to run; the operation declares any of the response sets, and
\* the handler sets a status or none, any of the body shapes and any headers.
ValidatedHandlerOutcomes ==
  [do : {"return"}, err : {NoError},
   status : {Undefined, Some(201), Some(404)},
   body : {BodyUndefined},
   ret : {BodyValue("resource"), BodyValue("resourceExtra"), BodyValue("problem"),
          BodyValue("other")},
   headers : {[k \in D |-> StringValue("2")] : D \in SUBSET {"location", "x-request-id"}}]

InitValidate ==
  /\ errorHandlerAsync = "default"
  /\ invalidResponseStrategy \in {"warn", "throw"}
  /\ responseTrimming \in {"none", "failing", "all"}
  /\ interceptors = <<>>
  /\ apiPromises = <<"fulfilled">>
  /\ settled = <<1>>
  /\ pc = "handler"
  /\ req = [headers |-> "object", method |-> "string", path |-> "string"]
  /\ res = NewResponse
  /\ thrown = NoError
  /\ route = [all |-> 1, apis |-> <<1>>, ic |-> 1, api |-> 1, err |-> NoError]
  /\ \E responses \in ResponseSets :
       operation = MatchedOperation(ApiContext(Undefined, Undefined, responses))
  /\ auth = [NoAuth EXCEPT !.status = "authorized"]
  /\ security = {}
  /\ probes = <<NewProbe(1, "matched")>>
  /\ log = <<>>
  /\ hist = NoHist
  /\ raw = NoRaw
  /\ parsed = NoParse
  /\ params = NoParams
  /\ seen = <<>>
  /\ own = NewResponse
  /\ waiting = <<>>
  /\ script = NoScript

NextValidate ==
  \/ \E o \in ValidatedHandlerOutcomes : InvokeOperationHandler(o)
  \/ ValidateResponse
  \/ DefaultErrorHandler
  \/ HandleAsyncReturns

SpecValidate == InitValidate /\ [][NextValidate]_vars

\* The implicit status code: the handler of a matched operation without
\* security is about to run; the operation declares responses under any set
\* of the keys, and the handler returns a body and sets a status or none.
InitStatus ==
  /\ errorHandlerAsync = "default"
  /\ invalidResponseStrategy = "warn"
  /\ responseTrimming = "failing"
  /\ interceptors = <<>>
  /\ apiPromises = <<"fulfilled">>
  /\ settled = <<1>>
  /\ pc = "handler"
  /\ req = [headers |-> "object", method |-> "string", path |-> "string"]
  /\ res = NewResponse
  /\ thrown = NoError
  /\ route = [all |-> 1, apis |-> <<1>>, ic |-> 1, api |-> 1, err |-> NoError]
  /\ \E responses \in SUBSET ResponseKeys :
       operation = MatchedOperation(ApiContext(Undefined, Undefined, responses))
  /\ auth = [NoAuth EXCEPT !.status = "authorized"]
  /\ security = {}
  /\ probes = <<NewProbe(1, "matched")>>
  /\ log = <<>>
  /\ hist = NoHist
  /\ raw = NoRaw
  /\ parsed = NoParse
  /\ params = NoParams
  /\ seen = <<>>
  /\ own = NewResponse
  /\ waiting = <<>>
  /\ script = NoScript

NextStatus ==
  \/ \E o \in {h \in HandlerOutcomes : h.do = "return" /\ h.body.t = "undefined" /\ h.ret.t = "value"} :
       InvokeOperationHandler(o)
  \/ ResolveResponse(FALSE, FALSE)
  \/ DefaultErrorHandler
  \/ HandleAsyncReturns

SpecStatus == InitStatus /\ [][NextStatus]_vars

\* Authorization in a definition registered with any subset of the
\* authorizers its schemes name: authorizeRequest has run up to its first
\* authorizer call, its return or its throw. The schemes are named A and B,
\* or A and a name that objects inherit.
InitUnregistered ==
  /\ errorHandlerAsync = "default"
  /\ invalidResponseStrategy = "warn"
  /\ responseTrimming = "failing"
  /\ interceptors = <<>>
  /\ apiPromises = <<"fulfilled">>
  /\ settled = <<1>>
  /\ req = [headers |-> "object", method |-> "string", path |-> "string"]
  /\ res = NewResponse
  /\ route = [all |-> 1, apis |-> <<1>>, ic |-> 1, api |-> 1, err |-> NoError]
  /\ \E names \in {SchemeNames, {"A"} \cup InheritedNames} :
     \E sec \in SecurityListsOver(names), authorizers \in SUBSET names :
       /\ operation = MatchedOperation(Declaring([security |-> sec, responses |-> {"201"}]))
       /\ auth = BeginAuthorizeWith(authorizers, sec)
  /\ security = IF auth.status = "authorized" THEN auth.results ELSE {}
  /\ pc = CASE auth.status = "authorized" -> "handler"
            [] auth.status = "unauthorized" -> "catch"
            [] OTHER -> "authorize"
  /\ thrown = IF auth.status = "unauthorized" THEN UnauthorizedError(auth.errors) ELSE NoError
  /\ probes = <<[NewProbe(1, "matched") EXCEPT
                   !.end = IF auth.status = "unauthorized" THEN "threw" ELSE "pending"]>>
  /\ log = <<>>
  /\ hist = NoHist
  /\ raw = NoRaw
  /\ parsed = NoParse
  /\ params = NoParams
  /\ seen = <<>>
  /\ own = NewResponse
  /\ waiting = <<>>
  /\ script = NoScript

NextUnregistered ==
  \/ InvokeAuthorizer(TRUE, NoError)
  \/ \E e \in AuthorizerErrors : InvokeAuthorizer(FALSE, e)
  \/ InvokeInheritedAuthorizer
  \/ DefaultErrorHandler
  \/ HandleAsyncReturns

SpecUnregistered == InitUnregistered /\ [][NextUnregistered]_vars

\* Failed initializations: definitions are registered before and between the
\* calls made one after the other on a facade with one interceptor, and each
\* initialization succeeds or fails at any time; the requests are a raw
\* request, which the router of a definition matches or not, and one
\* without headers.
InitFailedInit ==
  /\ errorHandlerAsync \in {"default", "custom"}
  /\ invalidResponseStrategy = "warn"
  /\ responseTrimming = "failing"
  /\ interceptors = <<1>>
  /\ apiPromises = <<>>
  /\ settled = <<>>
  /\ pc = "idle"
  /\ req = [headers |-> "object", method |-> "string", path |-> "string"]
  /\ res = NewResponse
  /\ thrown = NoError
  /\ route = NoRoute
  /\ operation = NoOperation
  /\ auth = NoAuth
  /\ security = {}
  /\ probes = <<>>
  /\ log = <<>>
  /\ hist = NoHist
  /\ raw = NoRaw
  /\ parsed = NoParse
  /\ params = NoParams
  /\ seen = <<>>
  /\ own = NewResponse
  /\ waiting = [k \in 1..(MaxCalls - 1) |-> IdleFrame]
  /\ script = NoScript

NextFailedInit ==
  \/ Register
  \/ \E i \in 1..MaxApis, ok \in BOOLEAN : CreateApiAsync(i, ok)
  \/ \E r \in {q \in RawRequests : q.method = "string" /\ q.path = "string"} :
       HandleAsync(r, Undefined)
  \/ GetApisAsync
  \/ InvokeInterceptor([do |-> "return", err |-> NoError, headers |-> <<>>, assign |-> <<>>])
  \/ HandleRequestFails("notFound", <<>>)
  \/ HandleRequestMatches(Declaring([security |-> <<>>, responses |-> {"201"}]), FALSE)
  \/ \E o \in {h \in HandlerOutcomes :
                  /\ h.do = "return" /\ h.status = Undefined
                  /\ h.body.t = "undefined" /\ h.ret.t = "value"} :
       InvokeOperationHandler(o)
  \/ ResolveResponse(FALSE, FALSE)
  \/ DefaultErrorHandler
  \/ CustomErrorHandler("set")
  \/ HandleAsyncReturns
  \/ Again

SpecFailedInit == InitFailedInit /\ [][NextFailedInit]_vars

\* The error path: one definition is initialized and one interceptor is
\* installed, and the call is about to run the interceptor. The interceptor,
\* the authorizer of the one scheme and the operation handler each write
\* headers of any type to the pending response (the handler a status and a
\* body too) and then return or throw any error. The call was handed any
\* custom data.
InternalErrors ==
  {PlainError("boom"), PlainError("secret"),
   [PlainError("denied") EXCEPT !.statusCode = Some(403), !.data = Some(<<"secret">>)],
   MkError("TypeError", Undefined, "x is undefined", <<>>)}

ThrowableErrors == UserErrors \cup InternalErrors

\* The values written to a header: a string, a number, a boolean, undefined,
\* and the arrays of a number and a string.
HeaderValues ==
  {StringValue("a"), NumberValue(2), BooleanValue(TRUE), UndefinedValue}
    \cup {ArrayValue(q) : q \in SeqsUpTo({NumberValue(1), StringValue("a")}, MaxItems) \ {<<>>}}

\* What one callback writes to res.headers: nothing, or one of the names.
HeaderWrites(names, values) ==
  {<<>>} \cup UNION {[{name} -> values] : name \in names}

\* The sources of attachParams(...sources): none, an object with a property
\* of its own, and an object with a data property.
ParamSources ==
  {<<>>, [k \in {"user"} |-> Some("admin")], [k \in {"data"} |-> Some("attached")]}

WritingInterceptorOutcomes ==
  [do : {"return"}, err : {NoError}, headers : HeaderWrites({"x-trace"}, HeaderValues),
   assign : ParamSources]
    \cup [do : {"throw"}, err : ThrowableErrors,
          headers : HeaderWrites({"x-trace"}, {NumberValue(2)}), assign : ParamSources]

WritingHandlerOutcomes ==
  [do : {"return"}, err : {NoError}, status : {Some(200)}, body : {BodyUndefined},
   ret : {BodyValue("returned")},
   headers : HeaderWrites({"x-trace", "set-cookie"}, HeaderValues)]
    \cup [do : {"throw"}, err : ThrowableErrors, status : {Undefined, Some(200)},
          body : {BodyUndefined, BodyValue("set")}, ret : {BodyUndefined},
          headers : HeaderWrites({"x-trace", "set-cookie"}, {BooleanValue(TRUE)})]

InitErrorPath ==
  /\ errorHandlerAsync = "default"
  /\ invalidResponseStrategy = "warn"
  /\ responseTrimming = "failing"
  /\ interceptors = <<1>>
  /\ apiPromises = <<"fulfilled">>
  /\ settled = <<1>>
  /\ pc = "intercept"
  /\ req = [headers |-> "object", method |-> "string", path |-> "string"]
  /\ res = NewResponse
  /\ thrown = NoError
  /\ route = [all |-> 1, apis |-> <<1>>, ic |-> 1, api |-> 1, err |-> NoError]
  /\ operation = NoOperation
  /\ auth = NoAuth
  /\ security = {}
  /\ probes = <<>>
  /\ log = <<>>
  /\ raw = NoRaw
  /\ parsed = NoParse
  /\ \E d \in CustomData :
       /\ params = RequestParams(d)
       /\ hist = [NoHist EXCEPT !.data = d]
  /\ seen = <<>>
  /\ own = NewResponse
  /\ waiting = <<>>
  /\ script = NoScript

NextErrorPath ==
  \/ \E o \in WritingInterceptorOutcomes : InvokeInterceptor(o)
  \/ \E sec \in {<<>>, << <<"A">> >>} :
       HandleRequestMatches(Declaring([security |-> sec, responses |-> {"201"}]), FALSE)
  \/ \E written \in HeaderWrites({"set-cookie"}, {StringValue("a"), NumberValue(2)}) :
       \/ InvokeAuthorizerWriting(TRUE, NoError, written)
       \/ InvokeAuthorizerWriting(FALSE, PlainError("boom"), written)
  \/ \E o \in WritingHandlerOutcomes : InvokeOperationHandler(o)
  \/ ResolveResponse(FALSE, FALSE)
  \/ DefaultErrorHandler
  \/ HandleAsyncReturns

SpecErrorPath == InitErrorPath /\ [][NextErrorPath]_vars

\* Termination: the pipeline of Spec with fewer answers of the callbacks, and
\* with the fairness the premise of terminating callbacks gives: an
\* initialization that is pending settles, and a call that waits for a
\* callback, for the router or for the definitions is resumed when that
\* answer is there.
LiveOperations == [security : {<<>>, << <<"A">>, <<"B">> >>}, responses : {{"201"}, {}}]

LiveHandlerOutcomes ==
  {o \in HandlerOutcomes :
     /\ o.do = "throw" => o.err \in {PlainError("boom"), NotFoundError}
     /\ o.do = "return" => o.status = Undefined /\ o.body.t = "undefined" /\ o.ret.t = "value"}

Settle == \E i \in 1..MaxApis, ok \in BOOLEAN : CreateApiAsync(i, ok)

Step ==
  \/ GetApisAsync
  \/ \E o \in ScriptedInterceptorOutcomes : InvokeInterceptor(o)
  \/ HandleRequestFails("notFound", <<>>)
  \/ \E op \in LiveOperations, ce \in BOOLEAN : HandleRequestMatches(Declaring(op), ce)
  \/ InvokeAuthorizer(TRUE, NoError)
  \/ InvokeAuthorizer(FALSE, PlainError("boom"))
  \/ \E o \in LiveHandlerOutcomes : InvokeOperationHandler(o)
  \/ \E be \in BOOLEAN : ResolveResponse(be, FALSE)
  \/ DefaultErrorHandler
  \/ \E o \in CustomOutcomes : CustomErrorHandler(o)
  \/ HandleAsyncReturns

NextLive ==
  \/ Register
  \/ \E n \in 0..MaxInterceptors : Intercept(n)
  \/ \E r \in RawRequests : HandleAsync(r, Undefined)
  \/ Settle
  \/ Step

SpecLive == Init /\ [][NextLive]_vars /\ WF_vars(Settle) /\ WF_vars(Step)

\* ------------------------------------------------------------ claims

Last(q) == q[Len(q)]

Range(q) == {q[i] : i \in 1..Len(q)}

\* C1: whichever stage throws and whatever the error handler does, a
\* handleAsync call ends by returning a RawResponse and never rejects.
C1_HandleNeverRejects == pc # "rejected"

\* C2: a returned RawResponse always has a statusCode: on the success path
\* the status found on the pending response when the handler returned, else
\* the schema default; on the error path the status the pending response
\* holds after the error handler, and 500 when that is still unset.
C2_StatusCodeAlwaysSet ==
  pc = "returned" =>
    /\ raw.statusCode # {}
    /\ \E c \in 100..599 : raw.statusCode = {c}
    /\ hist.eh = "notRun" =>
         /\ hist.returned
         /\ IF hist.statusPre # {} THEN raw.statusCode = hist.statusPre
            ELSE /\ raw.statusCode = {c \in ResponseCodes(operation.responses) : c >= 200 /\ c < 400}
    /\ hist.eh = "ran" =>
         IF hist.ehRes.statusCode # {} THEN raw.statusCode = hist.ehRes.statusCode
         ELSE raw.statusCode = {500}

\* C2 witness: a custom error handler left statusCode unset and 500 was forced.
C2_Witness ==
  /\ pc = "returned"
  /\ hist.eh = "ran"
  /\ hist.ehRes.statusCode = {}
  /\ raw.statusCode = {500}

\* The alternative k of the matched operation had every one of its schemes'
\* authorizers return without throwing, by the record of the calls made.
FullyAuthorized(k) ==
  \A j \in 1..Len(operation.security[k]) :
    \E i \in 1..Len(auth.calls) :
      /\ auth.calls[i].alt = k
      /\ auth.calls[i].name = operation.security[k][j]
      /\ auth.calls[i].ok

\* The status of the first collected scheme error that carries one, else 401.
UnauthorizedStatus(errs) ==
  LET withStatus == {i \in 1..Len(errs) : errs[i].statusCode # {}}
  IN  IF withStatus = {} THEN {401}
      ELSE errs[CHOOSE i \in withStatus : \A j \in withStatus : i <= j].statusCode

\* The handler of the probed operation runs only after some alternative was
\* fully authorized, and never once authorization has failed.
HandlerOnlyIfAuthorized ==
  /\ (pc = "handler" /\ operation.security # <<>>) =>
       \E k \in 1..Len(operation.security) : FullyAuthorized(k)
  /\ auth.status = "unauthorized" =>
       /\ pc \in {"catch", "finalize", "returned", "rejected"}
       /\ thrown.kind = "UnauthorizedError"
       /\ Last(probes).api \notin Range(hist.handlers)

\* C3 as stated: for an operation with security requirements the handler is
\* invoked only if some alternative was fully authorized; when authorization
\* fails the handler is never invoked and handle returns 401.
C3_UnauthorizedIs401 ==
  /\ HandlerOnlyIfAuthorized
  /\ (pc = "returned" /\ auth.status = "unauthorized" /\ errorHandlerAsync = "default") =>
       raw.statusCode = {401}

\* C3 amended: as C3, but the response of the default error handler has the
\* status of the first collected scheme error that carries one, and 401
\* when none does.
C3_UnauthorizedResponse ==
  /\ HandlerOnlyIfAuthorized
  /\ (pc = "returned" /\ auth.status = "unauthorized" /\ errorHandlerAsync = "default") =>
       /\ raw.statusCode = UnauthorizedStatus(thrown.errors)
       /\ raw.body.t = "error"
       /\ raw.body.v = "Not authorized"

\* C3 witness: every alternative failed, the handler was not invoked and the
\* default error handler answered with a scheme error's own status.
C3_Witness ==
  /\ pc = "returned"
  /\ auth.status = "unauthorized"
  /\ errorHandlerAsync = "default"
  /\ Len(operation.security) = 2
  /\ hist.handlers = <<>>
  /\ raw.statusCode = {403}

\* The first alternative that was fully authorized.
Winner == CHOOSE k \in 1..Len(operation.security) :
            /\ FullyAuthorized(k)
            /\ \A m \in 1..(k - 1) : ~FullyAuthorized(m)

\* C4: when some alternative is fully authorized, the results the handler
\* sees are exactly the scheme-to-return-value map of the first such
\* alternative, and no authorizer of a later alternative was invoked.
C4_FirstAuthorizedAlternativeWins ==
  (pc = "handler" /\ operation.security # <<>>) =>
    /\ \E k \in 1..Len(operation.security) : FullyAuthorized(k)
    /\ security = {<<auth.calls[i].name, [by |-> auth.calls[i].name, call |-> i]>> :
                     i \in {n \in 1..Len(auth.calls) : auth.calls[n].alt = Winner}}
    /\ {p[1] : p \in security} = Range(operation.security[Winner])
    /\ \A i \in 1..Len(auth.calls) : auth.calls[i].alt <= Winner

\* C4 witness: the second alternative won after the first one failed with
\* one of its authorizers having returned a value.
C4_Witness ==
  /\ pc = "handler"
  /\ Len(operation.security) = 2
  /\ Winner = 2
  /\ \E i \in 1..Len(auth.calls) : auth.calls[i].alt = 1 /\ auth.calls[i].ok
  /\ security # {}

\* C5: for a request matched to an operation whose effective security list
\* is empty no authorizer is invoked in the whole call, authorization
\* succeeds and the handler sees an empty results map.
C5_NoSecurityNoAuthorizer ==
  (Len(probes) > 0 /\ Last(probes).match = "matched" /\ operation.security = <<>>) =>
    /\ \A i \in 1..Len(log) : log[i].ev # "authorizer"
    /\ auth.calls = <<>>
    /\ pc # "authorize"
    /\ thrown.kind # "UnauthorizedError"
    /\ pc = "handler" => (auth.status = "authorized" /\ security = {})
    /\ (Last(probes).end = "pending") => pc \in {"handler", "resolve"}

\* The errors of the failed authorizer calls, in call order.
RECURSIVE ErrorsOf(_)
ErrorsOf(calls) ==
  IF calls = <<>> THEN <<>>
  ELSE IF Head(calls).ok THEN ErrorsOf(Tail(calls))
       ELSE <<Head(calls).error>> \o ErrorsOf(Tail(calls))

\* C6: when every alternative fails, one UnauthorizedError is raised that
\* carries every error thrown by an authorizer, from all alternatives and
\* schemes, in the order the authorizers were invoked.
C6_UnauthorizedCarriesAllErrors ==
  auth.status = "unauthorized" =>
    /\ pc = "catch"
    /\ thrown.kind = "UnauthorizedError"
    /\ thrown.errors = ErrorsOf(auth.calls)
    /\ \A k \in 1..Len(operation.security) : ~FullyAuthorized(k)

\* C6 witness: two alternatives failed with different errors in each.
C6_Witness ==
  /\ auth.status = "unauthorized"
  /\ Len(operation.security) = 2
  /\ Len(thrown.errors) >= 3
  /\ thrown.errors[1] # Last(thrown.errors)
  /\ \E i \in 1..Len(auth.calls) : auth.calls[i].ok

\* Response validation raised nothing that the strategy turns into a throw.
ValidationPassed ==
  hist.validated => ~((hist.bodyErrors \/ hist.headerErrors) /\ invalidResponseStrategy = "throw")

\* C7: if the handler sets no statusCode and the schema declares exactly one
\* 2xx code, the returned status is that code; if it declares zero or
\* several 2xx codes, handle returns the Internal error response, 500.
C7_SingleTwoHundredIsDefault ==
  LET twoHundreds == {c \in ResponseCodes(operation.responses) : c >= 200 /\ c < 300}
  IN  (pc = "returned" /\ hist.returned /\ hist.statusPre = {} /\ ValidationPassed
         /\ errorHandlerAsync = "default") =>
        IF Cardinality(twoHundreds) = 1 THEN raw.statusCode = twoHundreds
        ELSE raw.statusCode = {500} /\ raw.body.v = "Internal error"

\* C8: if the handler did not set response.body the resolved body is its
\* return value; if it set response.body, that value is the body and the
\* return value is ignored.
C8_BodyResolution ==
  (hist.returned /\ pc # "resolve" /\ hist.eh = "notRun") =>
    IF hist.bodyPre.t = "undefined" THEN res.body = hist.ret
    ELSE res.body = hist.bodyPre

\* C9: the definitions registered when the call was made are probed one at
\* a time in registration order, whatever order their initializations
\* settled in; in every probe before the last the router found no operation
\* for the method and path, so the first definition whose router finds one
\* handles the request and nothing after it is probed.
C9_ProbesInRegistrationOrder ==
  /\ route.apis # <<>> => route.apis = [i \in 1..hist.registered |-> i]
  /\ hist.registered <= Len(apiPromises)
  /\ Len(probes) <= Len(route.apis)
  /\ \A i \in 1..Len(probes) :
       /\ probes[i].api = i
       /\ i < Len(probes) => probes[i].match = "notFound"
  /\ pc = "probe" => \A i \in 1..Len(probes) : probes[i].match = "notFound"

\* C10: a probe that fails for any reason other than no path or method
\* matching (validation, missing handler, authorization, an error thrown by
\* the handler, response validation) aborts routing: no later definition is
\* probed and the call goes to the error handler.
C10_OtherFailuresAbort ==
  \A i \in 1..Len(probes) :
    (probes[i].match # "notFound" /\ probes[i].end \in {"notFound", "threw"}) =>
      /\ i = Len(probes)
      /\ pc \in {"catch", "finalize", "returned", "rejected"}
      /\ hist.eh # "notRun" \/ pc = "catch"

\* Every registered definition was probed and the router of each one found
\* no operation for the method and path of the request.
EveryDefinitionNotFound ==
  /\ Len(probes) > 0
  /\ Len(probes) = Len(route.apis)
  /\ \A i \in 1..Len(probes) : probes[i].match = "notFound"

\* C11: when at least one definition is registered and every definition
\* reports not-found, routing throws the NotFoundError remembered from the
\* last definition probed, no operation handler and no authorizer is invoked,
\* and the call (with the default error handler) returns 404.
C11_AllNotFoundIs404 ==
  EveryDefinitionNotFound =>
    /\ pc \in {"catch", "finalize", "returned", "rejected"}
    /\ errorHandlerAsync = "default" => pc # "rejected"
    /\ thrown = From(NotFoundError, Last(probes).api)
    /\ Last(probes).api = Last(route.apis)
    /\ route.err = thrown
    /\ \A i \in 1..Len(log) : log[i].ev \notin {"handler", "authorizer"}
    /\ hist.handlers = <<>>
    /\ auth.calls = <<>>
    /\ (pc = "returned" /\ errorHandlerAsync = "default") =>
         /\ raw.statusCode = {404}
         /\ raw.body.v = "Resource not found"

\* C11 witness: two definitions both reported not-found and the call
\* returned 404 for the error of the second.
C11_Witness ==
  /\ EveryDefinitionNotFound
  /\ Len(probes) = 2
  /\ thrown.origin = 2
  /\ pc = "returned"
  /\ errorHandlerAsync = "default"
  /\ raw.statusCode = {404}

\* C12: a call on a facade with no registered definition ends routing with
\* the 'No APIs are registered' error, which is not a NotFoundError; nothing
\* is probed, and the default error handler answers 500, never 404.
C12_NoApisIs500 ==
  (hist.registered = 0 /\ isRawRequest(req)
     /\ pc \in {"catch", "finalize", "returned", "rejected"}) =>
    /\ thrown = PlainError("No APIs are registered")
    /\ ~IsNotFound(thrown)
    /\ probes = <<>>
    /\ log = <<>> \/ (Len(log) = 1 /\ log[1].ev = "errorHandler")
    /\ (pc = "returned" /\ errorHandlerAsync = "default") =>
         /\ raw.statusCode = {500}
         /\ raw.body.v = "Internal error"

\* C12 witness: such a call returned 500 from the default error handler,
\* with an interceptor installed that never ran.
C12_Witness ==
  /\ apiPromises = <<>>
  /\ isRawRequest(req)
  /\ interceptors # <<>>
  /\ pc = "returned"
  /\ errorHandlerAsync = "default"
  /\ raw.statusCode = {500}
  /\ thrown.message = "No APIs are registered"

\* The interceptor invocations of the call, in the order they were made.
InterceptorRuns == SelectSeq(log, LAMBDA e : e.ev = "interceptor")

\* Every interceptor that was installed when the call was made was invoked,
\* or the last one invoked threw.
InterceptorsDone ==
  \/ Len(InterceptorRuns) >= hist.installed
  \/ InterceptorRuns # <<>> /\ Last(InterceptorRuns).name = "threw"

\* The interceptors invoked are a prefix of the installed ones, one
\* invocation each, all of them before anything else the call invokes; after
\* one that threw nothing more is invoked but the error handler, and no
\* definition is probed unless all of them returned.
InterceptorsInOrder ==
  /\ Len(InterceptorRuns) <= Len(interceptors)
  /\ \A i \in 1..Len(InterceptorRuns) :
       /\ InterceptorRuns[i].n = interceptors[i]
       /\ log[i] = InterceptorRuns[i]
       /\ i < Len(InterceptorRuns) => InterceptorRuns[i].name # "threw"
  /\ probes # <<>> =>
       /\ Len(InterceptorRuns) >= hist.installed
       /\ \A i \in 1..Len(InterceptorRuns) : InterceptorRuns[i].name # "threw"
  /\ (InterceptorRuns # <<>> /\ Last(InterceptorRuns).name = "threw") =>
       /\ probes = <<>>
       /\ pc \in {"catch", "finalize", "returned", "rejected"}
       /\ thrown \in UserErrors
       /\ pc # "catch" => (hist.eh # "notRun" /\ Last(log).ev = "errorHandler")
       /\ \A i \in 1..Len(log) : log[i].ev \in {"interceptor", "errorHandler"}

\* C13 as stated: in each call every installed interceptor runs exactly
\* once, in registration order and before any probe, unless one of them
\* throws, which ends the interceptors and the routing.
C13_EveryCallRunsInterceptors ==
  /\ InterceptorsInOrder
  /\ pc = "returned" => InterceptorsDone

\* C13 amended: the same for each call that reaches the interceptor loop:
\* its request is a raw request, at least one definition was registered
\* when it was made and every initialization succeeded. Every interceptor
\* installed when the call was made runs, and so does one installed while
\* the loop is running; one installed after the loop is left for later calls.
C13_RoutedCallRunsInterceptors ==
  /\ InterceptorsInOrder
  /\ (route.apis # <<>> /\ pc # "intercept") => InterceptorsDone
  /\ route.apis = <<>> => InterceptorRuns = <<>>

\* C13 witness: two interceptors ran in registration order, then a
\* definition was probed.
C13_Witness ==
  /\ hist.installed = 2
  /\ Len(InterceptorRuns) = 2
  /\ InterceptorRuns[1].n = 1
  /\ InterceptorRuns[2].n = 2
  /\ probes # <<>>
  /\ pc = "returned"

\* The call has reached the interceptors or the probing.
Routing ==
  \/ pc \in {"intercept", "probe", "authorize", "handler"}
  \/ InterceptorRuns # <<>>
  \/ probes # <<>>
  \/ route.apis # <<>>

\* C14: no interceptor runs and no definition is probed before the
\* initialization of every definition registered before the call has
\* completed: a call issued while initializations are pending stays at the
\* await of getApisAsync until all of them are done, in whatever order they
\* settle, and then routes over all of them (an initialization that fails
\* ends the call in the error handler with nothing routed).
C14_RoutingWaitsForInitialization ==
  /\ hist.registered <= Len(apiPromises)
  /\ Routing =>
       /\ \A i \in 1..hist.registered : apiPromises[i] = "fulfilled" /\ i \in Range(settled)
       /\ route.apis = [i \in 1..hist.registered |-> i]
  /\ (pc = "getApis" /\ \E i \in 1..hist.registered : apiPromises[i] = "pending") =>
       (~Routing /\ log = <<>>)
  /\ (pc \in {"catch", "finalize", "returned", "rejected"} /\ thrown.message = "init failed") =>
       /\ ~Routing
       /\ \E i \in 1..hist.registered : apiPromises[i] = "rejected"

\* C14 witness: the call stands at the await of getApisAsync, with an
\* interceptor installed that has not run, while the second definition has
\* settled and the first is still initializing.
C14_Witness ==
  /\ pc = "getApis"
  /\ hist.registered = 2
  /\ apiPromises = <<"pending", "fulfilled">>
  /\ settled = <<2>>
  /\ interceptors # <<>>
  /\ log = <<>>

\* The default error handler has answered the call.
DefaultHandlerAnswered ==
  pc = "returned" /\ errorHandlerAsync = "default" /\ hist.eh = "ran"

\* C15: the default error handler answers a BadRequestError with 400, a
\* NotFoundError with 404, a NotImplementedError with 501, an HttpError with
\* exactly the status, message and data it was constructed with, and every
\* other error (UnauthorizedError apart) with 500, whatever status the
\* pending response held before.
C15_DefaultErrorMapping ==
  DefaultHandlerAnswered =>
    CASE thrown.kind = "BadRequestError" -> raw.statusCode = {400}
      [] thrown.kind = "NotFoundError" -> raw.statusCode = {404}
      [] thrown.kind = "NotImplementedError" -> raw.statusCode = {501}
      [] thrown.kind = "HttpError" ->
           /\ raw.statusCode = thrown.statusCode
           /\ raw.body.t = "error"
           /\ raw.body.v = thrown.message
           /\ raw.body.hasData = (thrown.data # {})
           /\ thrown.data # {} => thrown.data = {raw.body.data}
      [] thrown.kind = "UnauthorizedError" -> TRUE
      [] OTHER -> raw.statusCode = {500} /\ raw.body.v = "Internal error"

\* C15 witness: the second of two interceptors threw an HttpError with
\* data, and the response has the error's status and data.
C15_Witness ==
  /\ DefaultHandlerAnswered
  /\ Len(InterceptorRuns) = 2
  /\ thrown.kind = "HttpError"
  /\ hist.ehRes.statusCode = {409}
  /\ raw.statusCode = {409}
  /\ raw.body.data = <<"detail">>

\* C16: for an UnauthorizedError the default error handler answers with the
\* status of the first collected scheme error, in collection order, that
\* carries one, and with 401 when none does; the body holds one entry per
\* collected scheme error, in the same order, with its message and data.
C16_UnauthorizedStatusAndBody ==
  (DefaultHandlerAnswered /\ thrown.kind = "UnauthorizedError") =>
    /\ thrown.errors = ErrorsOf(auth.calls)
    /\ raw.statusCode = UnauthorizedStatus(thrown.errors)
    /\ raw.body.t = "error"
    /\ raw.body.v = "Not authorized"
    /\ raw.body.hasData
    /\ Len(raw.body.data) = Len(thrown.errors)
    /\ \A i \in 1..Len(thrown.errors) :
         /\ raw.body.data[i].message = thrown.errors[i].message
         /\ raw.body.data[i].data = thrown.errors[i].data

\* C16 witness: a plain error, then an error with status 423, then one with
\* status 403 were collected, and the response has 423 and three entries.
C16_Witness ==
  /\ DefaultHandlerAnswered
  /\ thrown.kind = "UnauthorizedError"
  /\ Len(thrown.errors) = 3
  /\ thrown.errors[1].statusCode = {}
  /\ thrown.errors[2].statusCode = {423}
  /\ thrown.errors[3].statusCode = {403}
  /\ raw.statusCode = {423}
  /\ Len(raw.body.data) = 3

\* C16 witness of the default: only plain errors were collected and the
\* response has 401.
C16_WitnessDefault ==
  /\ DefaultHandlerAnswered
  /\ thrown.kind = "UnauthorizedError"
  /\ Len(thrown.errors) = 2
  /\ raw.statusCode = {401}

\* C17: when the router finds the request invalid for the operation it
\* matched, the call returns 400 (from the default error handler) with a
\* body that lists each violation, and no authorizer and no operation
\* handler is invoked for the request.
C17_ValidationFailureIs400 ==
  (Len(probes) > 0 /\ Last(probes).match = "validationFail") =>
    /\ pc \in {"catch", "finalize", "returned", "rejected"}
    /\ thrown.kind = "BadRequestError"
    /\ \A i \in 1..Len(log) : log[i].ev \notin {"authorizer", "handler"}
    /\ DefaultHandlerAnswered =>
         /\ raw.statusCode = {400}
         /\ raw.body.v = "Invalid request"
         /\ Len(raw.body.data) = Len(thrown.errors)
         /\ \A i \in 1..Len(thrown.errors) :
              /\ raw.body.data[i][2] = thrown.errors[i].message
              /\ raw.body.data[i][1] \in {thrown.errors[i].dataPath, "Request"}

\* The response the handler returned failed body or header validation.
ResponseInvalid == hist.validated /\ (hist.bodyErrors \/ hist.headerErrors)

\* C18: under the strategy 'warn' a response that fails body or header
\* validation is only logged: nothing is thrown, the error handler is not
\* invoked, and the call returns the status that dispatch resolved (the
\* status on the pending response when the handler returned, else the
\* default of the schema).
C18_WarnOnlyLogs ==
  (invalidResponseStrategy = "warn" /\ ResponseInvalid) =>
    /\ hist.warned
    /\ pc \in {"finalize", "returned"}
    /\ thrown = NoError
    /\ hist.eh = "notRun"
    /\ \A i \in 1..Len(log) : log[i].ev # "errorHandler"
    /\ Last(probes).end = "returned"
    /\ pc = "returned" =>
         /\ raw.statusCode = hist.resolved
         /\ raw.statusCode =
              IF hist.statusPre # {} THEN hist.statusPre
              ELSE {c \in ResponseCodes(operation.responses) : c >= 200 /\ c < 400}

\* C18 witness: under 'warn' a response with invalid headers and no status
\* set by the handler was returned with the schema's 201.
C18_Witness ==
  /\ invalidResponseStrategy = "warn"
  /\ hist.validated
  /\ hist.headerErrors
  /\ ~hist.bodyErrors
  /\ hist.statusPre = {}
  /\ pc = "returned"
  /\ raw.statusCode = {201}

\* C19: under the strategy 'throw' any response validation error, of the
\* body or of the headers, is thrown as a plain Error to the error handler
\* although the handler had returned and a status had been resolved, and the
\* default error handler answers 500.
C19_ThrowStrategyIs500 ==
  (invalidResponseStrategy = "throw" /\ ResponseInvalid) =>
    /\ hist.returned
    /\ hist.resolved # {}
    /\ ~hist.warned
    /\ pc \in {"catch", "finalize", "returned", "rejected"}
    /\ thrown = PlainError("Response doesn't match schema")
    /\ Last(probes).end = "threw"
    /\ pc # "catch" => (hist.eh # "notRun" /\ Last(log).ev = "errorHandler")
    /\ DefaultHandlerAnswered =>
         /\ raw.statusCode = {500}
         /\ raw.body.v = "Internal error"

\* C19 witness: under 'throw' the handler had set 200, only the headers
\* failed validation, and the default error handler answered 500.
C19_Witness ==
  /\ invalidResponseStrategy = "throw"
  /\ hist.validated
  /\ hist.headerErrors
  /\ ~hist.bodyErrors
  /\ hist.resolved = {200}
  /\ DefaultHandlerAnswered
  /\ raw.statusCode = {500}

\* The numbers that the numeric strings of the raw requests denote.
Numerals == {<<"1", 1>>, <<"2", 2>>, <<"02", 2>>}

\* v is the raw value r as a value of the type the schema declares: the
\* number or boolean the string denotes, the string itself, the array of the
\* numbers its elements denote; a schema without a type leaves r as it is.
CoercedTo(schema, r, v) ==
  LET one == IF r.t = "array" /\ Len(r.items) = 1 THEN r.items[1] ELSE r
      many == IF r.t = "array" THEN r.items ELSE <<r>>
  IN  CASE schema.type = "number" -> v.t = "number" /\ <<one.s, v.n>> \in Numerals
        [] schema.type = "boolean" ->
             v.t = "boolean" /\ one.s \in {"true", "false"} /\ (v.b <=> one.s = "true")
        [] schema.type = "string" -> v.t = "string" /\ v.s = one.s
        [] schema.type = "array" ->
             /\ v.t = "array"
             /\ Len(v.items) = Len(many)
             /\ \A i \in 1..Len(many) :
                  v.items[i].t = "number" /\ <<many[i].s, v.items[i].n>> \in Numerals
        [] OTHER -> v = r

\* C20: in the Request given to the handler, every parameter that the
\* operation declares for path, query, header or cookie and that the raw
\* request holds has its value coerced to the declared type (a numeric
\* string to its number, an array element by element), and every property
\* not declared for its location is the raw value unchanged.
C20_DeclaredParametersCoerced ==
  parsed.status = "parsed" =>
    \A location \in Locations :
      LET given == parsed.request[Field(location)]
          got == parsed.req[Field(location)]
      IN  /\ DOMAIN got = DOMAIN given
          /\ \A k \in DOMAIN given :
               LET declared == {q \in Range(parsed.operation.parameters) :
                                 q.in = location /\ q.name = k}
               IN  IF declared = {} THEN got[k] = given[k]
                   ELSE \A q \in declared : CoercedTo(q.schema, given[k], got[k])

\* C20 witness: the query holds foo = '02' declared as a number and bar =
\* ['1', '02'] declared as an array of numbers; the handler is given the
\* number 2 and the array [1, 2], the string '2' under foo in the headers,
\* where foo is not declared, and the number 2 in the cookies, where it is.
C20_Witness ==
  /\ parsed.status = "parsed"
  /\ parsed.location = "query"
  /\ parsed.request.query = [k \in {"foo", "bar"} |->
                               IF k = "foo" THEN StringValue("02")
                               ELSE ArrayValue(<<StringValue("1"), StringValue("02")>>)]
  /\ parsed.req.query = [k \in {"foo", "bar"} |->
                           IF k = "foo" THEN NumberValue(2)
                           ELSE ArrayValue(<<NumberValue(1), NumberValue(2)>>)]
  /\ parsed.req.headers.foo = StringValue("2")
  /\ parsed.req.cookies.foo = NumberValue(2)

\* The calls of the facade: the running one and the waiting ones.
Calls == {Frame} \cup Range(waiting)

\* C22: in any interleaving of concurrent handleAsync calls, each call works
\* on its own pending response: at every await the response of a call is as
\* the steps of that same call left it, and the RawResponse a call returns is
\* that response finalized, whatever the callbacks of the other calls wrote
\* in the meantime.
C22_OwnPendingResponse ==
  \A f \in Calls :
    /\ f.res = f.own
    /\ f.pc = "returned" => f.raw = Finalize(f.own)

\* Two calls are in flight at once, both at their operation handler: the
\* interceptor set a status in the running one and none in the waiting one.
C22_Witness ==
  /\ pc = "handler"
  /\ res.statusCode = Some(202)
  /\ \E k \in 1..Len(waiting) :
       /\ waiting[k].pc = "handler"
       /\ waiting[k].res.statusCode = Undefined
       /\ Len(waiting[k].seen) = 2

RECURSIVE DataAfter(_)
DataAfter(n) ==
  IF n = 0 THEN hist.data
  ELSE IF "data" \in DOMAIN seen[n].assigned THEN seen[n].assigned["data"]
       ELSE DataAfter(n - 1)

Ended(f) == f.pc \in {"returned", "rejected"}

\* C21: on a facade whose callbacks answer the same way whenever they are
\* asked, handleAsync called again with the same request and the same data
\* ends as every call before it did: the same RawResponse (statusCode, body,
\* headers) is returned, or both calls reject.
C21_RepeatedCallSameResponse ==
  \A f \in Range(waiting) :
    Ended(f) /\ Ended(Frame) => f.pc = pc /\ f.raw = raw

\* The place of a callback in the order of the stages.
StageRank(ev) ==
  CASE ev = "interceptor" -> 1
    [] ev = "authorizer" -> 2
    [] ev = "handler" -> 3
    [] OTHER -> 4

\* The callbacks were invoked in the order of the stages, the operation
\* handler and the error handler at most once.
CallbacksInStageOrder ==
  /\ \A i, j \in 1..Len(log) : i < j => StageRank(log[i].ev) <= StageRank(log[j].ev)
  /\ Cardinality({i \in 1..Len(log) : log[i].ev = "handler"}) <= 1
  /\ Cardinality({i \in 1..Len(log) : log[i].ev = "errorHandler"}) <= 1

\* Nothing but the error handler runs once a stage has thrown: after an
\* interceptor that threw, after a coercion failure (no authorizer, no
\* handler), after a failed authorization (no handler), after a handler that
\* threw or a status that cannot be resolved (no validation).
NothingAfterThrow ==
  /\ \A i \in 1..Len(log) :
       (log[i].ev = "interceptor" /\ log[i].name = "threw") =>
         /\ probes = <<>>
         /\ i = Len(log) \/ (i + 1 = Len(log) /\ log[i + 1].ev = "errorHandler")
  /\ \A i \in 1..Len(probes) :
       (probes[i].match # "notFound" /\ probes[i].end \in {"notFound", "threw"}) => i = Len(probes)
  /\ thrown.message = "Request doesn't match schema" =>
       \A i \in 1..Len(log) : log[i].ev \notin {"authorizer", "handler"}
  /\ thrown.kind = "UnauthorizedError" => \A i \in 1..Len(log) : log[i].ev # "handler"
  /\ (hist.handlers # <<>> /\ ~hist.returned) => ~hist.validated /\ hist.resolved = Undefined
  /\ thrown.message = "Cannot determine implicit status code" => ~hist.validated

\* C24: in every handleAsync call the stages run in the order interceptors,
\* route match, parameter coercion, authorization, operation handler, body
\* and status resolution, response validation, finalization; once a stage
\* has thrown no later stage runs but the error handler, and the call is
\* finalized after it.
C24_StagesInOrder ==
  /\ CallbacksInStageOrder
  /\ NothingAfterThrow
  /\ hist.validated => hist.returned /\ hist.resolved # Undefined
  /\ pc \in {"catch", "finalize", "returned", "rejected"} \/ hist.eh = "notRun"
  /\ hist.eh # "notRun" => pc \in {"finalize", "returned"}
  /\ pc = "returned" => raw = Finalize(res)

\* C25: with initializations and callbacks that terminate, every handleAsync
\* call that was made eventually is finalized and returns its RawResponse.
C25_EveryCallReturns == (pc # "idle") ~> (pc = "returned")

\* The schemes whose authorizers were invoked for alternative k, in call order.
RECURSIVE NamesOf(_, _)
NamesOf(calls, k) ==
  IF calls = <<>> THEN <<>>
  ELSE (IF Head(calls).alt = k THEN <<Head(calls).name>> ELSE <<>>) \o NamesOf(Tail(calls), k)

\* C26: an authorizer that throws does not end its alternative: the
\* authorizers of all schemes of an alternative are invoked, in declaration
\* order, before the next alternative starts (or authorization ends), and
\* every error thrown is recorded, in call order.
C26_FailedAlternativeRunsToItsEnd ==
  /\ \A i \in 1..(Len(auth.calls) - 1) : auth.calls[i].alt <= auth.calls[i + 1].alt
  /\ \A k \in 1..Len(operation.security) :
       /\ (k < auth.alt \/ (k = auth.alt /\ auth.status = "authorized")) =>
            NamesOf(auth.calls, k) = operation.security[k]
       /\ (k = auth.alt /\ auth.status = "calling") =>
            NamesOf(auth.calls, k) = SubSeq(operation.security[k], 1, auth.sch - 1)
       /\ k > auth.alt => NamesOf(auth.calls, k) = <<>>
  /\ auth.errors = ErrorsOf(auth.calls)

\* The first scheme of a two-scheme alternative threw, the second scheme was
\* called all the same, and the next alternative has been started.
C26_Witness ==
  /\ Len(operation.security) = 2
  /\ Len(operation.security[1]) = 2
  /\ auth.alt = 2
  /\ auth.status = "calling"
  /\ Len(auth.calls) = 2
  /\ ~auth.calls[1].ok
  /\ auth.calls[2].alt = 1
  /\ auth.errors = <<auth.calls[1].error>>

\* The list the matched operation declares itself when it declares one, else
\* the list of its definition when that declares one, else the empty list.
OwnElseDefinitionList ==
  IF operation.declared # Undefined THEN CHOOSE l \in operation.declared : TRUE
  ELSE IF operation.definition # Undefined THEN CHOOSE l \in operation.definition : TRUE
       ELSE <<>>

\* Every scheme of alternative k of the list was called, and returned.
AuthorizedBy(list, k) ==
  /\ NamesOf(auth.calls, k) = list[k]
  /\ \A i \in 1..Len(auth.calls) : auth.calls[i].alt = k => auth.calls[i].ok

\* C27: the security requirements evaluated for a matched operation are the
\* operation's own list whenever it declares one (an empty one included, which
\* lets the handler run with no authorizer called), and the list of the
\* definition only when the operation declares none: the authorizers called
\* are those of that one list, alternative by alternative, the handler runs
\* only when that list is empty or one of its alternatives was authorized,
\* and authorization fails only after all of its alternatives were tried.
C27_OwnSecurityListWins ==
  probes # <<>> =>
    LET list == OwnElseDefinitionList
    IN  /\ \A i \in 1..Len(auth.calls) : auth.calls[i].alt \in 1..Len(list)
        /\ \A k \in 1..Len(list) :
             LET names == NamesOf(auth.calls, k)
             IN  /\ Len(names) <= Len(list[k])
                 /\ names = SubSeq(list[k], 1, Len(names))
        /\ list = <<>> => pc = "handler"
        /\ pc = "handler" => (list = <<>> \/ \E k \in 1..Len(list) : AuthorizedBy(list, k))
        /\ pc = "catch" =>
             /\ thrown.kind = "UnauthorizedError"
             /\ \A k \in 1..Len(list) : NamesOf(auth.calls, k) = list[k] /\ ~AuthorizedBy(list, k)

\* The operation and its definition declare different lists, and the handler
\* is about to run after the authorizer of the operation's scheme alone.
C27_Witness ==
  /\ pc = "handler"
  /\ operation.declared = Some(<< <<"B">> >>)
  /\ operation.definition = Some(<< <<"A">> >>)
  /\ Len(auth.calls) = 1
  /\ auth.calls[1].name = "B"

\* The operation declares an empty list in a definition that declares a
\* scheme, and the handler is about to run with no authorizer called.
C27_WitnessEmptyList ==
  /\ pc = "handler"
  /\ operation.declared = Some(<<>>)
  /\ operation.definition = Some(<< <<"A">> >>)
  /\ auth.calls = <<>>

\* The operation declares no list, and the scheme of its definition failed.
C27_WitnessDefinitionList ==
  /\ pc = "catch"
  /\ operation.declared = Undefined
  /\ operation.definition = Some(<< <<"A">> >>)
  /\ Len(auth.calls) = 1

\* Validation ran for a response whose status code the operation declares.
ValidatedDeclaredStatus ==
  /\ hist.validated
  /\ hist.eh = "notRun"
  /\ hist.resolved \subseteq ResponseCodes(operation.responses)

\* The body was checked against the schema of the resolved status code: an
\* error is reported exactly when the body that was resolved (what the
\* handler set, else what it returned) fails the validator of that schema.
BodyAgainstResolvedStatus ==
  ValidatedDeclaredStatus =>
    \A code \in hist.resolved :
      hist.bodyErrors =
        ~validate(SchemaOf(code), CoalesceBody(hist.bodyPre, hist.ret), responseTrimming).valid

\* The headers were checked against the headers declared for the resolved
\* status code, and only those: a header that is not declared changes nothing.
HeadersAgainstResolvedStatus ==
  ValidatedDeclaredStatus =>
    \A code \in hist.resolved :
      hist.headerErrors = ~(DeclaredHeaders(code) \subseteq (DOMAIN res.headers \ {"x-request-id"}))

\* C28: response validation checks the body against the schema declared for
\* the resolved status code, and the headers against the headers declared
\* for that same code; a header that is not declared produces no error.
C28_ValidatesAgainstResolvedStatus ==
  /\ BodyAgainstResolvedStatus
  /\ HeadersAgainstResolvedStatus

\* C29: response validation runs the body check and the header check both,
\* whatever the first one reports, and hands the failure strategy one list
\* with the errors of both, the body's first: under 'throw' one error is
\* raised for that list, under 'warn' one warning is logged for it, and
\* neither happens when the list is empty.
C29_BothChecksOneList ==
  hist.validated =>
    /\ hist.reported \in {<<>>, <<"body">>, <<"headers">>, <<"body", "headers">>}
    /\ hist.bodyErrors = ("body" \in Range(hist.reported))
    /\ hist.headerErrors = ("headers" \in Range(hist.reported))
    /\ hist.warned = (hist.reported # <<>> /\ invalidResponseStrategy # "throw")
    /\ (hist.reported # <<>> /\ invalidResponseStrategy = "throw") =>
         /\ thrown.kind = "Error"
         /\ thrown.message = "Response doesn't match schema"
         /\ Last(probes).end = "threw"
    /\ (hist.reported = <<>> \/ invalidResponseStrategy # "throw") =>
         /\ thrown = NoError
         /\ pc \in {"finalize", "returned"}

\* Under 'throw', a body of no declared shape was returned with status 201
\* and without the Location header declared for it: the error raised is for
\* the list of both checks.
C29_Witness ==
  /\ pc = "catch"
  /\ invalidResponseStrategy = "throw"
  /\ hist.resolved = Some(201)
  /\ hist.ret.v = "other"
  /\ "location" \notin DOMAIN res.headers
  /\ hist.reported = <<"body", "headers">>
  /\ thrown.message = "Response doesn't match schema"

\* The response keys that are numerals of a number from 200 up to, not
\* including, 400, each with that number.
CandidateKeys == {<<"200", 200>>, <<"201", 201>>, <<"302", 302>>, <<"399", 399>>}

\* C30: when the handler sets no status, the candidates for the implicit
\* status code are the declared response keys that denote a number c with
\* 200 <= c < 400 (not those below 200, those from 400 on, or keys that are
\* no numbers, such as 'default'); with exactly one candidate the status is
\* that code, a 3xx code included, and with none or several (one 2xx and one
\* 3xx, say) the handler step throws.
C30_ImplicitStatusCandidates ==
  (hist.returned /\ hist.statusPre = Undefined) =>
    LET candidates == {p \in CandidateKeys : p[1] \in operation.responses}
    IN  IF Cardinality(candidates) = 1
        THEN /\ pc # "resolve" => hist.resolved = {p[2] : p \in candidates}
             /\ thrown = NoError
             /\ pc = "returned" => raw.statusCode = hist.resolved
        ELSE /\ hist.resolved = Undefined
             /\ pc # "resolve" => thrown.message = "Cannot determine implicit status code"
             /\ pc = "returned" => raw.statusCode = Some(500)

\* A single 3xx code is used, with keys below 200, from 400 on and 'default'
\* declared next to it.
C30_Witness ==
  /\ pc = "returned"
  /\ operation.responses = {"199", "302", "400", "default"}
  /\ hist.statusPre = Undefined
  /\ raw.statusCode = Some(302)

\* One 2xx and one 3xx code are ambiguous.
C30_WitnessAmbiguous ==
  /\ pc = "returned"
  /\ operation.responses = {"201", "302"}
  /\ hist.statusPre = Undefined
  /\ thrown.message = "Cannot determine implicit status code"
  /\ raw.statusCode = Some(500)

\* C31: coercing parameters never modifies the request it was given: once
\* parseRequest has returned or thrown, the path, header, query and cookie
\* parameters of the request hold the same strings as when it was received,
\* whatever was coerced into the Request that was built.
C31_RawRequestUntouched ==
  parsed.status \in {"parsed", "threw"} => parsed.request = parsed.received

\* parseRequest returned a Request in which the query string "2" of foo has
\* become the number 2.
C31_Witness ==
  /\ parsed.status = "parsed"
  /\ parsed.location = "query"
  /\ "foo" \in DOMAIN parsed.received.query
  /\ parsed.received.query["foo"] = StringValue("2")
  /\ parsed.req.query["foo"] = NumberValue(2)

\* C32: when the coercion of the parameters of a matched request reports an
\* error, the probe throws a plain Error at once: nothing but the error
\* handler is invoked from then on (no authorizer and no operation handler),
\* no warning is logged in place of the throw under either strategy, the
\* error is not a BadRequestError, and the default error handler answers 500.
C32_CoercionErrorIsInternal ==
  hist.coercion # Undefined =>
    /\ pc \in {"catch", "finalize", "returned", "rejected"}
    /\ thrown = PlainError("Request doesn't match schema")
    /\ Last(probes).match = "matched"
    /\ Last(probes).end = "threw"
    /\ \A at \in hist.coercion :
         \A i \in (at + 1)..Len(log) : log[i].ev = "errorHandler"
    /\ ~hist.warned
    /\ DefaultHandlerAnswered =>
         /\ raw.statusCode = {500}
         /\ raw.body.v = "Internal error"

\* Under the strategy 'warn' the coercion failed for an operation that
\* requires a scheme, and the default error handler answered.
C32_Witness ==
  /\ hist.coercion # Undefined
  /\ invalidResponseStrategy = "warn"
  /\ operation.security # <<>>
  /\ DefaultHandlerAnswered
  /\ raw.statusCode = {500}

\* The five classes of errors the default error handler knows.
KnownErrorKinds ==
  {"BadRequestError", "NotFoundError", "NotImplementedError", "UnauthorizedError", "HttpError"}

\* C33: for a thrown error of any other class the default error handler
\* answers 500 with the message 'Internal error' and no data, whatever the
\* message of the error and whatever statusCode or data it carries: the
\* status and the body are the same for all such errors.
C33_InternalErrorNotLeaked ==
  (DefaultHandlerAnswered /\ thrown.kind \notin KnownErrorKinds) =>
    /\ raw.statusCode = {500}
    /\ raw.body = [t |-> "error", v |-> "Internal error", hasData |-> FALSE, data |-> <<>>]

\* The handler threw a plain Error that carries a statusCode and data of its
\* own, and the default error handler answered.
C33_Witness ==
  /\ DefaultHandlerAnswered
  /\ hist.handlers # <<>>
  /\ thrown.kind = "Error"
  /\ thrown.statusCode = {403}
  /\ thrown.data # Undefined
  /\ raw.statusCode = {500}

\* The same for a class other than Error, thrown by the interceptor.
C33_WitnessTypeError ==
  /\ DefaultHandlerAnswered
  /\ hist.handlers = <<>>
  /\ thrown.kind = "TypeError"
  /\ raw.body.v = "Internal error"

\* A string, or an array of strings.
IsStringOrStrings(v) ==
  \/ v.t = "string"
  \/ v.t = "array" /\ \A i \in 1..Len(v.items) : v.items[i].t = "string"

\* The string form of a scalar header value.
StringForm(v) ==
  CASE v.t = "number" -> CHOOSE x \in {"1", "2"} : <<x, v.n>> \in Numerals
    [] v.t = "boolean" -> IF v.b THEN "true" ELSE "false"
    [] v.t = "undefined" -> "undefined"
    [] OTHER -> v.s

\* C34: every header value of the RawResponse a call returns, after the
\* handler returned and after the error handler answered alike, is a string
\* or an array of strings: the response has the names the pending response
\* has, a value that is no array is in its string form, and an array is an
\* array of the same length with each element in its string form.
C34_HeaderValuesAreStrings ==
  pc = "returned" =>
    /\ DOMAIN raw.headers = DOMAIN res.headers
    /\ \A k \in DOMAIN raw.headers :
         LET v == res.headers[k]
             w == raw.headers[k]
         IN  /\ IsStringOrStrings(w)
             /\ v.t # "array" => w = StringValue(StringForm(v))
             /\ v.t = "array" =>
                  /\ w.t = "array"
                  /\ Len(w.items) = Len(v.items)
                  /\ \A i \in 1..Len(v.items) : w.items[i] = StringValue(StringForm(v.items[i]))

\* The handler returned after writing an array that holds a number, and the
\* response holds the array of the strings.
C34_Witness ==
  /\ pc = "returned"
  /\ hist.eh = "notRun"
  /\ "set-cookie" \in DOMAIN res.headers
  /\ res.headers["set-cookie"] = ArrayValue(<<NumberValue(1), StringValue("a")>>)
  /\ raw.headers["set-cookie"] = ArrayValue(<<StringValue("1"), StringValue("a")>>)

\* The error handler answered a call whose interceptor had written a number
\* and whose handler had written a boolean before it threw.
C34_WitnessErrorPath ==
  /\ DefaultHandlerAnswered
  /\ hist.handlers # <<>>
  /\ DOMAIN res.headers = {"x-trace", "set-cookie"}
  /\ res.headers["x-trace"] = NumberValue(2)
  /\ raw.headers["x-trace"] = StringValue("2")
  /\ raw.headers["set-cookie"] = StringValue("true")

\* C35: at most one operation handler is invoked during one call, whatever
\* the definitions registered and whatever the callbacks throw.
C35_AtMostOneHandler == Len(hist.handlers) <= 1

\* The invocations of the error handler in the call so far.
ErrorHandlerRuns == Cardinality({i \in 1..Len(log) : log[i].ev = "errorHandler"})

\* The step in which the error handler runs.
ErrorHandlerStep == pc = "catch" /\ pc' # "catch"

\* C36: in a call where routing threw, the error handler is invoked exactly
\* once, with the thrown error and with the pending response as the pipeline
\* left it (the default handler overwrites the status and the body of that
\* very response, a user-supplied one that writes nothing leaves it as it
\* was); in a call where routing did not throw it is never invoked.
C36_ErrorHandlerOncePerThrow ==
  /\ [](/\ ErrorHandlerRuns <= 1
        /\ thrown.kind = "none" => (ErrorHandlerRuns = 0 /\ hist.eh = "notRun")
        /\ (thrown.kind # "none" /\ pc \in {"returned", "rejected"}) =>
             /\ ErrorHandlerRuns = 1
             /\ Last(log) = Event("errorHandler", 0, thrown.kind))
  /\ [][ErrorHandlerStep =>
          /\ thrown' = thrown
          /\ res'.headers = res.headers
          /\ errorHandlerAsync = "default" => res' = defaultErrorHandler(res, thrown)
          /\ errorHandlerAsync = "custom" =>
               res' \in {res, [res EXCEPT !.statusCode = Some(418), !.body = BodyValue("custom")]}]_vars

\* The handler had written a body and failed on the implicit status, and a
\* user-supplied error handler ran once and left the response as it was.
C36_Witness ==
  /\ pc = "returned"
  /\ errorHandlerAsync = "custom"
  /\ thrown = PlainError("Cannot determine implicit status code")
  /\ ErrorHandlerRuns = 1
  /\ res.body.t = "value"
  /\ raw.body = res.body

\* Routing ended with the return of a handler, and no error handler ran.
C36_WitnessNoThrow ==
  /\ pc = "returned"
  /\ thrown.kind = "none"
  /\ hist.handlers # <<>>
  /\ ErrorHandlerRuns = 0

\* The schemes of alternative k that have an authorizer, in declaration order.
RegisteredOf(list, k) == SelectSeq(list[k], LAMBDA name : name \in auth.registered)

\* The schemes of the first k alternatives that failed, in evaluation order:
\* those without an authorizer and those whose authorizer threw.
FailedSchemes(list, k) ==
  Cardinality({c \in 1..Len(auth.calls) : auth.calls[c].alt <= k /\ ~auth.calls[c].ok})
    + Cardinality({<<j, i>> \in (1..k) \X (1..MaxSchemes) :
                     /\ i <= Len(list[j])
                     /\ list[j][i] \notin auth.registered})

\* C37: a scheme for which no authorizer is registered counts as a failed
\* scheme. No authorizer is invoked for it; the handler runs only through
\* an alternative all of whose schemes have an authorizer that returned;
\* when authorization fails every alternative was evaluated to its end (the
\* authorizers of all its registered schemes were invoked), the error is an
\* UnauthorizedError with one error per failed scheme, and the default
\* error handler answers with the status of C16 (401 unless a collected
\* error carries a status), never with 500.
C37_MissingAuthorizerFailsScheme ==
  LET list == operation.security
  IN  /\ \A c \in 1..Len(auth.calls) : auth.calls[c].name \in auth.registered
      /\ pc = "handler" =>
           \/ list = <<>>
           \/ \E k \in 1..Len(list) :
                /\ \A i \in 1..Len(list[k]) : list[k][i] \in auth.registered
                /\ AuthorizedBy(list, k)
      /\ pc \in {"catch", "finalize", "returned"} =>
           /\ thrown.kind = "UnauthorizedError"
           /\ \A k \in 1..Len(list) : NamesOf(auth.calls, k) = RegisteredOf(list, k)
           /\ Len(thrown.errors) = FailedSchemes(list, Len(list))
      /\ DefaultHandlerAnswered =>
           /\ raw.statusCode = UnauthorizedStatus(thrown.errors)
           /\ raw.statusCode # {500}
           /\ (\A i \in 1..Len(thrown.errors) : thrown.errors[i].statusCode = Undefined) =>
                raw.statusCode = {401}

\* The call was made with no definition registered or with a request that
\* is no raw request.
NothingToRoute == apiPromises = <<>> \/ ~isRawRequest(req)

\* C38: a call made with no definition registered, or with a request whose
\* method or path is no string or whose headers are no object, ends with
\* the response of the error handler, and no interceptor was invoked and no
\* definition probed in it.
C38_ChecksBeforeInterceptors ==
  (NothingToRoute /\ pc \in {"returned", "rejected"}) =>
    /\ pc = "returned"
    /\ hist.eh = "ran"
    /\ InterceptorRuns = <<>>
    /\ probes = <<>>

\* The initialization of a definition registered before the call was made
\* has failed, or an earlier call on the facade ended with that failure.
InitializationFailed ==
  \/ \E i \in 1..hist.registered : i <= Len(apiPromises) /\ apiPromises[i] = "rejected"
  \/ \E k \in 1..Len(waiting) : waiting[k].thrown = PlainError("init failed")

\* C39: once the initialization of a registered definition has failed, every
\* call that gets past the await of the definitions ends in the error
\* handler: no interceptor runs, no definition is probed and no handler is
\* invoked, whatever other definitions are or get registered and
\* initialized; a raw request fails with the initialization error, the
\* default error handler answers 500, and this holds for each later call on
\* the facade as for the first.
C39_FailedInitializationIsFinal ==
  (InitializationFailed /\ pc \notin {"idle", "getApis"}) =>
    /\ pc \in {"catch", "finalize", "returned", "rejected"}
    /\ InterceptorRuns = <<>>
    /\ probes = <<>>
    /\ hist.handlers = <<>>
    /\ isRawRequest(req) => thrown = PlainError("init failed")
    /\ DefaultHandlerAnswered => raw.statusCode = {500}

\* The first definition failed to initialize and a call ended with 500; a
\* second definition was registered and initialized after it, and the next
\* call, with a raw request, ended with 500 as well.
C39_Witness ==
  /\ apiPromises = <<"rejected", "fulfilled">>
  /\ \E k \in 1..Len(waiting) :
       /\ waiting[k].pc = "returned"
       /\ waiting[k].route = NoRoute
       /\ waiting[k].raw.statusCode = {500}
  /\ isRawRequest(req)
  /\ DefaultHandlerAnswered
  /\ thrown.message = "init failed"
  /\ raw.statusCode = {500}

\* The string form of a header value: of the value itself, or of each
\* element of an array.
Stringified(v) ==
  IF v.t = "array" THEN ArrayValue([i \in 1..Len(v.items) |-> StringValue(StringForm(v.items[i]))])
  ELSE StringValue(StringForm(v))

\* C40: the default error handler overwrites the status and the body of the
\* pending response and nothing else: the headers the pending response held
\* when the error was caught (written by the interceptor, the authorizer or
\* the handler before the throw) are the headers of the response returned,
\* in their string form, and the status and the body returned are those of
\* the error, whatever status and body had been written before the throw.
C40_ErrorPathKeepsHeaders ==
  DefaultHandlerAnswered =>
    /\ res.headers = hist.caught.headers
    /\ DOMAIN raw.headers = DOMAIN hist.caught.headers
    /\ \A k \in DOMAIN raw.headers : raw.headers[k] = Stringified(hist.caught.headers[k])
    /\ raw.statusCode = Coalesce(toHttpError(thrown).statusCode, Some(500))
    /\ raw.body.t = "error"
    /\ raw.body.v = toHttpError(thrown).message

\* The interceptor had written x-trace, the authorizer set-cookie, and the
\* handler a status 200 and a body before it threw an HttpError with 403:
\* the response has 403, the body of the error, and both headers.
C40_Witness ==
  /\ DefaultHandlerAnswered
  /\ Len(auth.calls) = 1
  /\ hist.handlers # <<>>
  /\ thrown = HttpError("Forbidden", 403)
  /\ hist.caught.statusCode = {200}
  /\ hist.caught.body = BodyValue("set")
  /\ hist.caught.headers = [k \in {"x-trace", "set-cookie"} |-> NumberValue(2)]
  /\ raw.statusCode = {403}
  /\ raw.body.v = "Forbidden"
  /\ raw.headers = [k \in {"x-trace", "set-cookie"} |-> StringValue("2")]

====
